---- MODULE Spec2Model ----
(***************************************************************************)
(* A model of the migration scripts of road_companiesInfo:                 *)
(*   - backend/scripts/backfill_hasAnyWebPresence_optimized.py             *)
(*       collect_batches, process_collection, process_batch_with_retry,    *)
(*       process_batch (thread-pool generation of the pipeline);           *)
(*   - backend/scripts/migrate_companies.py                                *)
(*       migrate_companies, insert_companies_batch (sequential generation);*)
(*   - the bounded-channel producer/worker pipeline of spec.md sections    *)
(*       4.1, 4.3 and 5, whose code is not among the sources.              *)
(* The variable prog says which program a behaviour runs.                  *)
(***************************************************************************)
EXTENDS Integers, Sequences, FiniteSets, TLC

\* ------------------------------------------------------------ bounds
\* Largest source collection (documents are keyed 1..N, N <= MaxDocs).
MaxDocs == 3
\* Largest source collection when only the extraction is run.
MaxCollectDocs == 5

\* ------------------------------------------------- program constants
\* MAX_BATCH_SIZE is 500 in the script; scaled to 3 so that a full write
\* batch is reachable with MaxDocs documents.
MAX_BATCH_SIZE == 3
\* FETCH_BATCH_SIZE (local of collect_batches) is 500 as well; scaled alike.
FETCH_BATCH_SIZE == 3
\* DEFAULT_CONCURRENCY is 5; scaled to 2.
DEFAULT_CONCURRENCY == 2
\* process_batch_with_retry: attempts per batch.
MAX_RETRIES == 3
\* collect_batches: local max_retries of the fetch loop.
max_retries == 5

Outcomes == {"ok", "retryable", "fatal"}

\* document keys
DocIds == 1..MaxCollectDocs

VARIABLES
    prog,              \* "backfill" | "migrate" | "pipeline"
    N,                 \* number of source documents (keys 1..N)
    P,                 \* page size of one fetch
    W,                 \* batch_size (work-item size)
    concurrency,       \* max_workers
    dry_run,           \* --dry-run
    store,             \* Firestore: hasAnyWebPresence of each document
    pc,                \* position of the main thread
    last_doc,          \* pagination cursor (0 = None)
    retry_count,       \* collect_batches: retry_count of the current page
    page_retried,      \* history: the last fetched page needed a retry
    fetched,           \* history: keys in the order they were fetched
    batches,           \* collect_batches: batches
    current_batch,     \* collect_batches: current_batch
    total_fetched,     \* collect_batches: total_fetched
    fut,               \* process_collection: one future per batch
    totals,            \* process_collection: total_updated/skipped/errors, completed_batches
    run,               \* "first": the first run of the script; "second": it was run again
    cause,             \* why the run ended early: "none" | "source" | "sink"
    src,               \* migrate: the field of each Firestore document
    sink,              \* migrate: the companies table, column value by id
    resume,            \* migrate: content of RESUME_FILE (0 = no file)
    last_doc_id,       \* migrate: local last_doc_id (-1 = not yet bound, 0 = None)
    companies_batch,   \* migrate: companies_batch of the current page
    counts,            \* migrate: total_processed, total_inserted
    exc,               \* migrate: the exception that left migrate_companies
    conn_open,         \* migrate: pg_conn is open
    after_run,         \* history: the sink as the completed first run left it, and its errors
    chan,              \* pipeline: the bounded channel, oldest item first
    buf,               \* pipeline: the Producer's buffer of fetched records
    short,             \* pipeline: the last page was shorter than P
    items,             \* pipeline: every WorkItem emitted, with who pulled it and its outcomes
    pushed,            \* pipeline history: kind of every item put on the channel, in order
    wst,               \* pipeline: state of each Worker
    last_error,        \* history: the error of the last failed fetch ("none" after a success)
    wait_time,         \* history: the wait slept before the pending attempt of the page (0: none)
    sample_size,       \* verify: --sample-size (0 = None)
    vcounts,           \* verify: total_count, has_field_count, missing_field_count, true_count, false_count
    col_idx_map,       \* csv import: what the header of the file maps (empty file, key columns)
    csv_rows,          \* csv import: the rows of the file after the header
    row_num,           \* csv import: 1-based index of the next row
    stats,             \* csv import: the counters of the script
    db,                \* csv import: the companies table as committed
    tx,                \* csv import: the table as the open transaction sees it
    tx_failed,         \* csv import: a statement failed in the open transaction and no rollback followed
    submitted,         \* csv import history: row and match value of every statement executed
    skipped_rows,      \* csv import history: the rows counted as skipped
    tx_updates,        \* csv import history: row updates made in the open transaction
    num_in,            \* parse_numeric: the script, the header and the cell text
    num_out,           \* parse_numeric: the value returned
    companies,         \* scraper: the companies table, the scraped columns by id
    rows,              \* scraper: the rows fetch_companies returned
    sfut,              \* scraper: one future per row: position, data scraped, status
    conns,             \* scraper: the connection each call of process_one_company opened
    mode,              \* edinet: "codes", "doc_id_csv" or "doc_id"
    no_resume,         \* edinet: --no-resume
    codes,             \* edinet: the securities codes to process, in order
    processed_file,    \* edinet: the codes in data/processed_codes.txt
    processed,         \* edinet: the codes main loaded from that file
    idx,               \* edinet: position of the loop over the codes
    download_failed,   \* edinet: codes whose download failed in this run
    recorded,          \* edinet: codes this run appended to the file
    events,            \* aggregator: the events channel, oldest event first
    agg,               \* aggregator: its position, produced counter, per-worker tuples, totals
    agg_hist,          \* aggregator history: events consumed, the last one, the last of each kind
    wcum               \* pipeline: each Worker's own cumulative (applied, skipped)

\* variables of the backfill script alone
bonly == <<W, concurrency, dry_run, store, retry_count, page_retried, batches,
           current_batch, total_fetched, fut, totals>>
\* variables of migrate_companies alone
monly == <<src, sink, resume, last_doc_id, companies_batch, counts, exc, conn_open>>
\* variables both use
shared == <<prog, N, P, pc, last_doc, fetched, run, cause, after_run>>

\* variables of the bounded-channel pipeline alone
ponly == <<chan, buf, short, items, pushed, wst>>

\* variables of verify_collection alone
vonly == <<sample_size, vcounts>>

\* variables of the csv import scripts alone
conly == <<col_idx_map, csv_rows, row_num, stats, db, tx, tx_failed, submitted,
           skipped_rows, tx_updates>>

\* variables of the Progress Aggregator alone
aonly == <<events, agg, agg_hist, wcum>>

\* variables the programs above leave alone
nonly == <<num_in, num_out>>
\* the variables of the programs added later
\* variables of scrape_company_homepage alone
sonly == <<companies, rows, sfut, conns>>
\* variables of fetch_edinet_relations alone
eonly == <<mode, no_resume, codes, processed_file, processed, idx, download_failed, recorded>>
xonly == <<nonly, sonly, eonly>>
others == <<last_error, wait_time, vonly, conly, xonly>>

vars == <<shared, bonly, monly, ponly, aonly, others>>

\* ------------------------------------------------------------ helpers
Min(a, b) == IF a < b THEN a ELSE b

RECURSIVE Flatten(_)
Flatten(ss) == IF ss = <<>> THEN <<>> ELSE Head(ss) \o Flatten(Tail(ss))

Ids(docs) == [i \in 1..Len(docs) |-> docs[i].id]

CeilDiv(a, b) == (a + b - 1) \div b

\* ------------------------------------------------------------ source
\* The value of the web fields of document d (companyUrl, urls, ...): fixed
\* source data, one representative per case of has_value.
WebValues == <<"url", "none", "null_str", "empty">>
WebField(d) == WebValues[((d - 1) % 4) + 1]

\* has_value: None, "", "null"/"undefined" are not values.
has_value(value) == value \notin {"none", "empty", "null_str"}

\* calculate_has_any_web_presence(doc_data)
calculate_has_any_web_presence(d) == has_value(WebField(d))

FieldOf(b) == IF b THEN "true" ELSE "false"

\* query.order_by(document id).limit(limit)[.start_after(cursor)].get() on an
\* unchanged collection of n documents: the next keys after the cursor.
QueryGet(cursor, n, limit) ==
    [i \in 1..Min(limit, n - cursor) |-> cursor + i]

\* ------------------------------------------------------ process_batch
\* One call of process_batch on batch_docs; outs[k] is the outcome of the
\* k-th call of batch.commit().  The result carries the counters, the writes
\* committed and the exception that left the function ("none" when it returned).
PB0 == [updated |-> 0, skipped |-> 0, errors |-> 0, batch |-> <<>>,
        batch_count |-> 0, committed |-> <<>>, k |-> 1, raised |-> "none"]

\* batch.commit() inside the per-document try (lines 276-280, 282-284)
CommitInLoop(st, outs, dry) ==
    IF dry
    THEN [st EXCEPT !.batch = <<>>, !.batch_count = 0]
    ELSE IF outs[st.k] = "ok"
         THEN [st EXCEPT !.committed = @ \o st.batch, !.batch = <<>>,
                         !.batch_count = 0, !.k = @ + 1]
         ELSE [st EXCEPT !.errors = @ + 1, !.k = @ + 1]

\* line 265: the field is there and already holds the computed value
AlreadySet(doc, hwp) == doc.has # "absent" /\ doc.has = hwp

\* faulty variant of UpdateValue: the update negates the value read
UpdateValueToggle(doc, hwp) == IF doc.has = "true" THEN "false" ELSE "true"

\* line 271: the value of batch.update(doc_ref, {"hasAnyWebPresence": ...})
UpdateValue(doc, hwp) == hwp

RECURSIVE PBLoop(_, _, _, _, _)
PBLoop(docs, i, st, outs, dry) ==
    IF i > Len(docs) THEN st
    ELSE LET doc == docs[i]
             hwp == FieldOf(calculate_has_any_web_presence(doc.id))
         IN IF AlreadySet(doc, hwp)
            THEN PBLoop(docs, i + 1, [st EXCEPT !.skipped = @ + 1], outs, dry)
            ELSE LET st1 == [st EXCEPT !.batch = Append(@, [id |-> doc.id, val |-> UpdateValue(doc, hwp)]),
                                       !.batch_count = @ + 1,
                                       !.updated = @ + 1]
                     st2 == IF st1.batch_count >= MAX_BATCH_SIZE
                            THEN CommitInLoop(st1, outs, dry)
                            ELSE st1
                 IN PBLoop(docs, i + 1, st2, outs, dry)

\* faulty variant of FinalCommit: only the first write of the batch is stored
FinalCommitFirstWrite(st, outs, dry) ==
    IF st.batch_count > 0 /\ ~dry
    THEN IF outs[st.k] = "ok"
         THEN [st EXCEPT !.committed = @ \o SubSeq(st.batch, 1, 1), !.k = @ + 1]
         ELSE [st EXCEPT !.raised = outs[st.k], !.k = @ + 1]
    ELSE st

\* the remaining commit (lines 286-289): an exception here leaves process_batch
FinalCommit(st, outs, dry) ==
    IF st.batch_count > 0 /\ ~dry
    THEN IF outs[st.k] = "ok"
         THEN [st EXCEPT !.committed = @ \o st.batch, !.k = @ + 1]
         ELSE [st EXCEPT !.raised = outs[st.k], !.k = @ + 1]
    ELSE st

process_batch(batch_docs, outs, dry) ==
    FinalCommit(PBLoop(batch_docs, 1, PB0, outs, dry), outs, dry)

\* The outcomes of the calls of batch.commit() one call of process_batch can
\* meet: at most two calls are made on a batch of at most MAX_BATCH_SIZE
\* documents; an outcome that is never consumed is fixed to "ok".
CommitOutcomes(batch_docs, dry) ==
    {outs \in [1..2 -> Outcomes] :
        \A k \in 1..2 : k >= process_batch(batch_docs, outs, dry).k => outs[k] = "ok"}

\* faulty variant of ApplyWrites: a write lands at its position in the batch
ApplyWritesByPosition(s, writes) ==
    [d \in DOMAIN s |-> IF d <= Len(writes) THEN writes[d].val ELSE s[d]]

\* the store after the writes of a commit
ApplyWrites(s, writes) ==
    [d \in DOMAIN s |->
        IF \E j \in 1..Len(writes) : writes[j].id = d
        THEN (CHOOSE w \in {writes[j] : j \in 1..Len(writes)} : w.id = d).val
        ELSE s[d]]

\* ------------------------------------------------------------ Init
NoFut == <<>>
\* total_updated, total_skipped, total_errors, completed_batches; retried is
\* history: how many of the batches counted had slept between attempts
Totals0 == [updated |-> 0, skipped |-> 0, errors |-> 0, completed |-> 0, retried |-> 0]

\* the variables of migrate_companies while the backfill script runs
MigrateIdle ==
    /\ src = [d \in DocIds |-> "null"]
    /\ sink = [d \in DocIds |-> "norow"]
    /\ resume = 0
    /\ last_doc_id = -1
    /\ companies_batch = <<>>
    /\ counts = [processed |-> 0, inserted |-> 0]
    /\ exc = "none"
    /\ conn_open = FALSE

\* the variables of the bounded-channel pipeline while a script runs
AggOff == [st |-> "off", produced |-> 0, workers |-> <<>>,
           totals |-> [applied |-> 0, skipped |-> 0]]
AggHist0 == [consumed |-> 0, last |-> <<>>, last_produced |-> 0, last_progress |-> <<>>]

PipeIdle ==
    /\ chan = <<>> /\ buf = <<>> /\ short = FALSE
    /\ items = <<>> /\ pushed = <<>> /\ wst = <<>>
    /\ events = <<>> /\ agg = AggOff /\ agg_hist = AggHist0 /\ wcum = <<>>

VCounts0 == [total |-> 0, has_field |-> 0, missing_field |-> 0,
             true_count |-> 0, false_count |-> 0]

\* the variables of verify_collection while another program runs
VerifyIdle == sample_size = 0 /\ vcounts = VCounts0

\* the variables of the csv import scripts while another program runs
CsvIdle ==
    /\ col_idx_map = <<>> /\ csv_rows = <<>> /\ row_num = 0 /\ stats = <<>>
    /\ db = <<>> /\ tx = <<>> /\ tx_failed = FALSE
    /\ submitted = <<>> /\ skipped_rows = {} /\ tx_updates = 0

\* the variables of parse_numeric while another program runs
NumIdle == num_in = <<>> /\ num_out = <<>>

\* the variables of the programs added later, while another program runs
\* the variables of scrape_company_homepage while another program runs
ScrapeIdle == companies = <<>> /\ rows = <<>> /\ sfut = <<>> /\ conns = <<>>

\* the variables of fetch_edinet_relations while another program runs
EdinetIdle ==
    /\ mode = "none" /\ no_resume = FALSE /\ codes = <<>> /\ idx = 0
    /\ processed_file = {} /\ processed = {} /\ download_failed = {} /\ recorded = {}

ExtraIdle == NumIdle /\ ScrapeIdle /\ EdinetIdle

RestIdle == last_error = "none" /\ wait_time = 0 /\ VerifyIdle /\ CsvIdle /\ ExtraIdle

\* hasAnyWebPresence before the run: on no document, on every document, or
\* on every second one
InitialStores(n) ==
    {[d \in DocIds |-> "absent"],
     [d \in DocIds |-> IF d <= n THEN "true" ELSE "absent"],
     [d \in DocIds |-> IF d <= n /\ d % 2 = 0 THEN "true" ELSE "absent"]}

\* the backfill script started on a collection of at most n documents
BackfillStart(n) ==
    /\ prog = "backfill"
    /\ N \in 0..n
    /\ P = FETCH_BATCH_SIZE
    /\ W \in 1..MAX_BATCH_SIZE
    /\ concurrency = DEFAULT_CONCURRENCY
    /\ dry_run \in BOOLEAN
    /\ store \in InitialStores(N)
    /\ pc = "collect"
    /\ last_doc = 0
    /\ retry_count = 0
    /\ page_retried = FALSE
    /\ fetched = <<>>
    /\ batches = <<>>
    /\ current_batch = <<>>
    /\ total_fetched = 0
    /\ fut = NoFut
    /\ totals = Totals0
    /\ run = "first"
    /\ cause = "none"
    /\ after_run = <<>>
    /\ MigrateIdle
    /\ PipeIdle
    /\ RestIdle

InitBackfill == BackfillStart(MaxDocs)

\* ----------------------------------------------------- collect_batches
\* The for-loop over docs_list (lines 389-400): append each document with its
\* data as read, closing a batch whenever it reaches batch_size.
\* faulty variant of Regroup: a batch is closed only once it exceeds batch_size
RECURSIVE RegroupLate(_, _, _, _)
RegroupLate(docs_list, i, acc, w) ==
    IF i > Len(docs_list) THEN acc
    ELSE LET cur == Append(acc.current_batch, docs_list[i])
         IN IF Len(cur) > w
            THEN RegroupLate(docs_list, i + 1,
                         [batches |-> Append(acc.batches, cur), current_batch |-> <<>>], w)
            ELSE RegroupLate(docs_list, i + 1,
                         [batches |-> acc.batches, current_batch |-> cur], w)

RECURSIVE Regroup(_, _, _, _)
Regroup(docs_list, i, acc, w) ==
    IF i > Len(docs_list) THEN acc
    ELSE LET cur == Append(acc.current_batch, docs_list[i])
         IN IF Len(cur) >= w
            THEN Regroup(docs_list, i + 1,
                         [batches |-> Append(acc.batches, cur), current_batch |-> <<>>], w)
            ELSE Regroup(docs_list, i + 1,
                         [batches |-> acc.batches, current_batch |-> cur], w)

\* lines 409-411: the remainder becomes the last batch
Finalize(bs, cur) == IF cur # <<>> THEN Append(bs, cur) ELSE bs

\* faulty variant of NextCursor: the cursor is the first document of the page
NextCursorFirst(docs_list) == docs_list[1]

\* line 407: the cursor of the next page
NextCursor(docs_list) == docs_list[Len(docs_list)]

\* faulty variant of LastPage: a short page does not end the loop
LastPageNever(docs_list, limit) == FALSE

\* line 403: if len(docs_list) < FETCH_BATCH_SIZE: break
LastPage(docs_list, limit) == Len(docs_list) < limit

\* One pass of the retry loop of collect_batches with a successful query.get(),
\* followed by the rest of the iteration (lines 385-407) and, when the loop
\* ends, by lines 409-414.
FetchOk ==
    /\ prog = "backfill" /\ pc = "collect"
    /\ LET keys == QueryGet(last_doc, N, P)
           docs_list == [i \in 1..Len(keys) |-> [id |-> keys[i], has |-> store[keys[i]]]]
           acc == Regroup(docs_list, 1,
                          [batches |-> batches, current_batch |-> current_batch], W)
       IN /\ fetched' = fetched \o keys
          /\ total_fetched' = total_fetched + Len(keys)
          /\ page_retried' = (retry_count > 0)
          /\ retry_count' = 0
          /\ last_error' = "none"
          /\ wait_time' = 0
          /\ IF Len(keys) = 0
             THEN /\ batches' = Finalize(batches, current_batch)
                  /\ current_batch' = current_batch
                  /\ last_doc' = last_doc
                  /\ pc' = "collected"
             ELSE IF LastPage(keys, P)
                  THEN /\ batches' = Finalize(acc.batches, acc.current_batch)
                       /\ current_batch' = acc.current_batch
                       /\ last_doc' = last_doc
                       /\ pc' = "collected"
                  ELSE /\ batches' = acc.batches
                       /\ current_batch' = acc.current_batch
                       /\ last_doc' = NextCursor(keys)
                       /\ pc' = "collect"
    /\ UNCHANGED <<prog, N, P, W, concurrency, dry_run, store, fut, totals,
                   run, cause, after_run, monly, ponly, aonly, vonly, conly, xonly>>

\* lines 354 and 375: wait_time = 5 * retry_count
FetchWaitTime(rc) == 5 * rc

\* faulty variant of RetriesExhausted: the bound is never reached
RetriesNeverExhausted(rc) == FALSE

\* lines 339 and 369: if retry_count > max_retries: raise
RetriesExhausted(rc) == rc > max_retries

\* query.get() raises (lines 334-383): a retryable error is retried while
\* retry_count <= max_retries, anything else propagates out of the script.
FetchFail ==
    /\ prog = "backfill" /\ pc = "collect"
    /\ \E e \in {"retryable", "fatal"} :
         /\ retry_count' = retry_count + 1
         /\ last_error' = e
         /\ IF RetriesExhausted(retry_count + 1) \/ e = "fatal"
            THEN pc' = "failed" /\ cause' = "source" /\ wait_time' = wait_time
            ELSE /\ pc' = "collect" /\ cause' = cause
                 /\ wait_time' = FetchWaitTime(retry_count + 1)
    /\ UNCHANGED <<prog, N, P, W, concurrency, dry_run, store, last_doc, page_retried,
                   fetched, batches, current_batch, total_fetched, fut, totals,
                   run, after_run, monly, ponly, aonly, vonly, conly, xonly>>

\* ---------------------------------------------------- process_collection
\* faulty variant of future_to_batch: the last batch is not submitted
future_to_batch_but_last(bs) == [k \in 1..(Len(bs) - 1) |-> k]

\* lines 459-462: the batch index of every future submitted, in the order of
\* submission
future_to_batch(bs) == [k \in 1..Len(bs) |-> k]

\* lines 438-462: nothing to do, or one future per batch submitted to the
\* executor (whose work queue is unbounded).
Submit ==
    /\ prog = "backfill" /\ pc = "collected"
    /\ IF batches = <<>>
       THEN /\ pc' = "done"
            /\ fut' = fut
       ELSE /\ pc' = "processing"
            /\ fut' = [k \in DOMAIN future_to_batch(batches) |->
                         [batch |-> future_to_batch(batches)[k],
                          st |-> "pending", result |-> <<0, 0, 0>>,
                          waits |-> <<>>, failed |-> FALSE,
                          starts |-> 0, outcomes |-> 0]]
    /\ UNCHANGED <<prog, N, P, W, concurrency, dry_run, store, last_doc, retry_count,
                   page_retried, fetched, batches, current_batch, total_fetched, totals,
                   run, cause, after_run, monly, ponly, aonly, others>>

\* line 460: the Firestore client the pool thread of future i writes through
\* is the argument db, the one client main created (line 577)
WorkerConnection(i) == "db"

Running == {i \in DOMAIN fut : fut[i].st = "running"}
Pending == {i \in DOMAIN fut : fut[i].st = "pending"}

\* A pool thread takes the oldest queued work item.
StartBatch(i) ==
    /\ prog = "backfill" /\ pc = "processing"
    /\ i \in Pending
    /\ \A j \in Pending : i <= j
    /\ Cardinality(Running) < concurrency
    /\ fut' = [fut EXCEPT ![i].st = "running", ![i].starts = @ + 1]
    /\ UNCHANGED <<prog, N, P, W, concurrency, dry_run, store, pc, last_doc, retry_count,
                   page_retried, fetched, batches, current_batch, total_fetched, totals,
                   run, cause, after_run, monly, ponly, aonly, others>>

\* RETRY_DELAY * (2 ** attempt), line 225
RETRY_DELAY == 1
RECURSIVE Pow2(_)
Pow2(n) == IF n = 0 THEN 1 ELSE 2 * Pow2(n - 1)
WaitTime(attempt) == RETRY_DELAY * Pow2(attempt)

\* process_batch_with_retry from the given attempt on: the set of ways the call
\* can end, one for every outcome of the commits it makes.  acc carries the
\* writes committed and the waits slept so far.
RECURSIVE process_batch_with_retry(_, _, _, _)
process_batch_with_retry(batch_docs, attempt, acc, dry) ==
    IF attempt >= MAX_RETRIES
    THEN {[result |-> <<0, 0, Len(batch_docs)>>, committed |-> acc.committed,
           waits |-> acc.waits, failed |-> TRUE]}
    ELSE UNION {
        LET r == process_batch(batch_docs, outs, dry)
            done == acc.committed \o r.committed
        IN IF r.raised = "none"
           THEN {[result |-> <<r.updated, r.skipped, r.errors>>, committed |-> done,
                  waits |-> acc.waits, failed |-> FALSE]}
           ELSE IF r.raised = "retryable" /\ attempt < MAX_RETRIES - 1
                THEN process_batch_with_retry(batch_docs, attempt + 1,
                         [committed |-> done,
                          waits |-> Append(acc.waits, WaitTime(attempt))], dry)
                ELSE {[result |-> <<0, 0, Len(batch_docs)>>, committed |-> done,
                       waits |-> acc.waits, failed |-> TRUE]}
        : outs \in CommitOutcomes(batch_docs, dry)}

\* A pool thread runs process_batch_with_retry on batch i to its return; the
\* future keeps the waits slept between the attempts.
RunBatch(i) ==
    /\ prog = "backfill" /\ pc = "processing"
    /\ i \in Running
    /\ \E r \in process_batch_with_retry(batches[fut[i].batch], 0,
                     [committed |-> <<>>, waits |-> <<>>], dry_run) :
         /\ store' = ApplyWrites(store, r.committed)
         /\ fut' = [fut EXCEPT ![i].st = "done", ![i].result = r.result,
                                ![i].waits = r.waits, ![i].failed = r.failed]
    /\ UNCHANGED <<prog, N, P, W, concurrency, dry_run, pc, last_doc, retry_count,
                   page_retried, fetched, batches, current_batch, total_fetched, totals,
                   run, cause, after_run, monly, ponly, aonly, others>>

\* faulty variant of AsCompleted: a future already yielded is yielded again
AsCompletedAgain == {i \in DOMAIN fut : fut[i].st \in {"done", "collected"}}

\* line 465: the futures as_completed has still to yield, once they finish
AsCompleted == {i \in DOMAIN fut : fut[i].st = "done"}

\* lines 465-489: the body of the as_completed loop for one finished future;
\* after the last one the with-block ends and process_collection returns.
Collect(i) ==
    /\ prog = "backfill" /\ pc = "processing"
    /\ i \in AsCompleted
    /\ fut' = [fut EXCEPT ![i].st = "collected", ![i].result = <<0, 0, 0>>,
                          ![i].waits = <<>>, ![i].failed = FALSE,
                          ![i].outcomes = @ + 1]
    /\ totals' = [updated |-> totals.updated + fut[i].result[1],
                  skipped |-> totals.skipped + fut[i].result[2],
                  errors |-> totals.errors + fut[i].result[3],
                  completed |-> totals.completed + 1,
                  retried |-> totals.retried + (IF fut[i].waits # <<>> THEN 1 ELSE 0)]
    /\ pc' = IF totals.completed + 1 = Len(batches) THEN "done" ELSE "processing"
    /\ UNCHANGED <<prog, N, P, W, concurrency, dry_run, store, last_doc, retry_count,
                   page_retried, fetched, batches, current_batch, total_fetched,
                   run, cause, after_run, monly, ponly, aonly, others>>

\* The script is run again on the same collection.
BRestart ==
    /\ prog = "backfill" /\ pc = "done"
    /\ run = "first"
    /\ run' = "second"
    /\ after_run' = [sink |-> store, errors |-> totals.errors]
    /\ pc' = "collect"
    /\ last_doc' = 0
    /\ retry_count' = 0
    /\ page_retried' = FALSE
    /\ fetched' = <<>>
    /\ batches' = <<>>
    /\ current_batch' = <<>>
    /\ total_fetched' = 0
    /\ fut' = NoFut
    /\ totals' = Totals0
    /\ UNCHANGED <<prog, N, P, W, concurrency, dry_run, store, cause, monly, ponly, aonly, others>>

\* collect_batches alone, on larger collections
InitCollect == BackfillStart(MaxCollectDocs) /\ ~dry_run /\ \A d \in DocIds : store[d] = "absent"
NextCollect == FetchOk \/ FetchFail

NextBackfill ==
    \/ FetchOk
    \/ FetchFail
    \/ Submit
    \/ \E i \in DocIds : StartBatch(i)
    \/ \E i \in DocIds : RunBatch(i)
    \/ \E i \in DocIds : Collect(i)
    \/ BRestart

\* ======================================================= migrate_companies
\* BATCH_SIZE is 1000 in the script; scaled to 2.
BATCH_SIZE == 2

\* prepare_company_data + company.get(col): the value bound to the column,
\* None ("null") when the document lacks the field.
prepare_company_data(d, doc_data) == [id |-> d, val |-> doc_data]

\* ON CONFLICT (id) DO UPDATE SET col = EXCLUDED.col (line 316): what the
\* column holds after the statement, given what is stored and what comes in.
UpsertColumn(existing, incoming) == incoming

\* execute_batch over values_list inside one transaction (lines 331-333)
RECURSIVE ExecuteBatch(_, _)
ExecuteBatch(table, values_list) ==
    IF values_list = <<>> THEN table
    ELSE LET r == Head(values_list)
         IN ExecuteBatch([table EXCEPT ![r.id] = UpsertColumn(table[r.id], r.val)],
                         Tail(values_list))

\* the except clauses of migrate_companies (lines 431-441): reading the local
\* last_doc_id before any page was read raises UnboundLocalError; otherwise
\* the resume point is saved when last_doc_id is set, and the error re-raised.
Handler(ldi, file) ==
    IF ldi = -1 THEN [resume |-> file, exc |-> "UnboundLocalError"]
    ELSE IF ldi # 0 THEN [resume |-> ldi, exc |-> "original"]
    ELSE [resume |-> file, exc |-> "original"]

InitMigrate ==
    /\ prog = "migrate"
    /\ N \in 0..MaxDocs
    /\ P = BATCH_SIZE
    /\ src \in [DocIds -> {"null", "a"}]
    /\ sink \in [DocIds -> {"norow", "null", "b"}]
    /\ \A d \in DocIds : d > N => src[d] = "null" /\ sink[d] = "norow"
    /\ resume = 0
    /\ last_doc = 0
    /\ last_doc_id = -1
    /\ companies_batch = <<>>
    /\ counts = [processed |-> 0, inserted |-> 0]
    /\ exc = "none"
    /\ conn_open = TRUE
    /\ pc = "fetch"
    /\ fetched = <<>>
    /\ run = "first"
    /\ cause = "none"
    /\ after_run = <<>>
    \* the backfill script's variables are not used
    /\ W = 1 /\ concurrency = 1 /\ dry_run = FALSE
    /\ store = [d \in DocIds |-> "absent"]
    /\ retry_count = 0 /\ page_retried = FALSE
    /\ batches = <<>> /\ current_batch = <<>> /\ total_fetched = 0
    /\ fut = NoFut /\ totals = Totals0
    /\ PipeIdle
    /\ RestIdle

\* lines 420-429 and the finally clause: normal completion
Complete(table) ==
    /\ pc' = "done"
    /\ resume' = 0
    /\ conn_open' = FALSE
    /\ after_run' = IF run = "first" THEN [sink |-> table, errors |-> 0] ELSE after_run

\* lines 371-394: snapshot = query.get() and the loop that prepares the page
MFetch ==
    /\ prog = "migrate" /\ pc = "fetch"
    /\ \E outcome \in {"ok", "error"} :
         IF outcome = "ok"
         THEN LET snapshot == QueryGet(last_doc, N, P)
              IN IF snapshot = <<>>
                 THEN /\ Complete(sink)
                      /\ UNCHANGED <<sink, last_doc_id, companies_batch, counts, exc,
                                     cause, fetched>>
                 ELSE /\ companies_batch' =
                            [i \in 1..Len(snapshot) |->
                                prepare_company_data(snapshot[i], src[snapshot[i]])]
                      /\ last_doc_id' = snapshot[Len(snapshot)]
                      /\ counts' = [counts EXCEPT !.processed = @ + Len(snapshot)]
                      /\ fetched' = fetched \o snapshot
                      /\ pc' = "insert"
                      /\ UNCHANGED <<sink, resume, exc, conn_open, cause, after_run>>
         ELSE LET h == Handler(last_doc_id, resume)
              IN /\ resume' = h.resume
                 /\ exc' = h.exc
                 /\ cause' = "source"
                 /\ pc' = "failed"
                 /\ conn_open' = FALSE
                 /\ UNCHANGED <<sink, last_doc_id, companies_batch, counts, fetched,
                                after_run>>
    /\ UNCHANGED <<prog, N, P, last_doc, run, src, bonly, ponly, aonly, others>>

\* lines 396-414: insert_companies_batch on the page, then the resume point
\* and the cursor; a failed statement is rolled back and re-raised.
MInsert ==
    /\ prog = "migrate" /\ pc = "insert"
    /\ \E outcome \in {"ok", "error"} :
         IF outcome = "ok"
         THEN /\ sink' = ExecuteBatch(sink, companies_batch)
              /\ counts' = [counts EXCEPT !.inserted = @ + Len(companies_batch)]
              /\ IF Len(companies_batch) < BATCH_SIZE
                 THEN /\ Complete(ExecuteBatch(sink, companies_batch))
                      /\ last_doc' = last_doc
                 ELSE /\ resume' = last_doc_id
                      /\ last_doc' = companies_batch[Len(companies_batch)].id
                      /\ pc' = "fetch"
                      /\ UNCHANGED <<conn_open, after_run>>
              /\ UNCHANGED <<exc, cause>>
         ELSE LET h == Handler(last_doc_id, resume)
              IN /\ resume' = h.resume
                 /\ exc' = h.exc
                 /\ cause' = "sink"
                 /\ pc' = "failed"
                 /\ conn_open' = FALSE
                 /\ UNCHANGED <<sink, counts, last_doc, after_run>>
    /\ UNCHANGED <<prog, N, P, run, src, fetched, last_doc_id, companies_batch, bonly, ponly, aonly, others>>

\* The script is started again: load_resume_point and the locals afresh.
MRestart ==
    /\ prog = "migrate" /\ pc \in {"done", "failed"}
    /\ run = "first"
    /\ run' = "second"
    /\ last_doc' = resume
    /\ last_doc_id' = -1
    /\ companies_batch' = <<>>
    /\ counts' = [processed |-> 0, inserted |-> 0]
    /\ exc' = "none"
    /\ cause' = "none"
    /\ conn_open' = TRUE
    /\ fetched' = <<>>
    /\ pc' = "fetch"
    /\ UNCHANGED <<prog, N, P, src, sink, resume, after_run, bonly, ponly, aonly, others>>

NextMigrate ==
    \/ MFetch
    \/ MInsert
    \/ MRestart

\* ================================================ bounded-channel pipeline
\* The Producer, the bounded channel and the Workers of spec.md 4.1, 4.3, 5.
\* Capacity of the channel.
queueMaxSize == 2
\* Number of Workers.
workerCount == 2

Workers == 1..workerCount
\* The channel holds the index of a WorkItem in items, or the Sentinel.
Sentinel == 0

\* faulty variant of NextProducerPc: the remainder is not emitted
NextProducerPcNoFinal(b, w, wasShort) ==
    IF Len(b) >= w THEN "emit"
    ELSE IF ~wasShort THEN "fetch"
    ELSE "sentinels"

\* Where the Producer goes once the buffer holds b: emit while a whole
\* WorkItem is buffered; after a short page the remainder, then the Sentinels.
NextProducerPc(b, w, wasShort) ==
    IF Len(b) >= w THEN "emit"
    ELSE IF ~wasShort THEN "fetch"
    ELSE IF b # <<>> THEN "final"
    ELSE "sentinels"

\* faulty variant of AfterSentinel: the Worker goes on pulling
AfterSentinelIdle == "idle"

\* What a Worker does after it pulled a Sentinel.
AfterSentinel == "stopped"

\* ---- Progress Aggregator (spec.md 4.5)
\* Largest count an event carries when the events are arbitrary.
MaxCount == 1

ProducedEvent(count) == [kind |-> "produced", count |-> count]
ProgressEvent(w, applied, skipped) ==
    [kind |-> "progress", worker |-> w, applied |-> applied, skipped |-> skipped]

RECURSIVE SumWorkers(_, _)
SumWorkers(ws, w) ==
    IF w = 0 THEN [applied |-> 0, skipped |-> 0]
    ELSE LET r == SumWorkers(ws, w - 1)
         IN [applied |-> r.applied + ws[w][1], skipped |-> r.skipped + ws[w][2]]

\* faulty variant of Consume: the counts of an event are added to what is stored
ConsumeAdding(a, e) ==
    IF e.kind = "produced"
    THEN [a EXCEPT !.produced = @ + e.count]
    ELSE LET ws == [a.workers EXCEPT ![e.worker] = <<@[1] + e.applied, @[2] + e.skipped>>]
         IN [a EXCEPT !.workers = ws, !.totals = SumWorkers(ws, workerCount)]

\* The Aggregator consumes one event: produced(count) replaces the produced
\* counter, progress(workerId, applied, skipped) replaces that worker's
\* tuple; the global totals are recomputed.
Consume(a, e) ==
    IF e.kind = "produced"
    THEN [a EXCEPT !.produced = e.count]
    ELSE LET ws == [a.workers EXCEPT ![e.worker] = <<e.applied, e.skipped>>]
         IN [a EXCEPT !.workers = ws, !.totals = SumWorkers(ws, workerCount)]

\* history of the events consumed
Consumed(h, e) ==
    [consumed |-> 1 - h.consumed,
     last |-> e,
     last_produced |-> IF e.kind = "produced" THEN e.count ELSE h.last_produced,
     last_progress |-> IF e.kind = "progress"
                       THEN [h.last_progress EXCEPT ![e.worker] = <<e.applied, e.skipped>>]
                       ELSE h.last_progress]

\* faulty variant of ExitCondition: the loop ends on the first timeout
ExitOnTimeout(evs, producer, ch) == evs = <<>>

\* Termination of the polling loop: the read of the events channel timed
\* out, the Producer is no longer running and the work channel is empty.
ExitCondition(evs, producer, ch) ==
    /\ evs = <<>>
    /\ producer \in {"exited", "aborted"}
    /\ ch = <<>>

AggPolling == [st |-> "polling", produced |-> 0,
               workers |-> [w \in Workers |-> <<0, 0>>],
               totals |-> [applied |-> 0, skipped |-> 0]]
AggHistPolling == [consumed |-> 0, last |-> <<>>, last_produced |-> 0,
                   last_progress |-> [w \in Workers |-> <<0, 0>>]]

\* an event is put on the events channel while an Aggregator listens
Report(evs, e) == IF agg.st = "polling" THEN Append(evs, e) ELSE evs

\* Largest collection of the runs with an Aggregator attached.
MaxAggDocs == 2

PipeStart(maxN) ==
    /\ prog = "pipeline"
    /\ N \in 0..maxN
    /\ P = BATCH_SIZE
    /\ W \in 1..BATCH_SIZE
    /\ concurrency = workerCount
    /\ pc = "fetch"
    /\ last_doc = 0
    /\ retry_count = 0
    /\ fetched = <<>>
    /\ chan = <<>> /\ buf = <<>> /\ short = FALSE
    /\ items = <<>> /\ pushed = <<>>
    /\ wst = [w \in Workers |-> [st |-> "idle", item |-> 0, sentinels |-> 0]]
    /\ run = "first" /\ cause = "none" /\ after_run = <<>>
    /\ dry_run = FALSE
    /\ store = [d \in DocIds |-> "absent"]
    /\ page_retried = FALSE
    /\ batches = <<>> /\ current_batch = <<>> /\ total_fetched = 0
    /\ fut = NoFut /\ totals = Totals0
    /\ MigrateIdle
    /\ RestIdle
    /\ events = <<>>
    /\ wcum = [w \in Workers |-> <<0, 0>>]

\* the pipeline without an Aggregator attached
InitPipe == PipeStart(MaxCollectDocs) /\ agg = AggOff /\ agg_hist = AggHist0

\* the pipeline with its Aggregator
InitAgg == PipeStart(MaxAggDocs) /\ agg = AggPolling /\ agg_hist = AggHistPolling

PipeFrame == UNCHANGED <<prog, N, P, W, concurrency, run, after_run, dry_run, store,
                         page_retried, batches, current_batch, total_fetched, fut,
                         totals, monly, others>>

\* Producer: fetch the page after the cursor and append it to the buffer.
PFetchOk ==
    /\ prog = "pipeline" /\ pc = "fetch"
    /\ LET page == QueryGet(last_doc, N, P)
       IN /\ buf' = buf \o page
          /\ fetched' = fetched \o page
          /\ last_doc' = IF page = <<>> THEN last_doc ELSE page[Len(page)]
          /\ short' = (Len(page) < P)
          /\ pc' = NextProducerPc(buf \o page, W, Len(page) < P)
    /\ retry_count' = 0
    /\ UNCHANGED <<chan, items, pushed, wst, cause, aonly>>
    /\ PipeFrame

\* Producer: the fetch fails; a retryable failure is retried a bounded number
\* of times, anything else is fatal.
PFetchFail ==
    /\ prog = "pipeline" /\ pc = "fetch"
    /\ \E e \in {"retryable", "fatal"} :
         IF e = "retryable" /\ retry_count + 1 < MAX_RETRIES
         THEN /\ retry_count' = retry_count + 1
              /\ UNCHANGED <<pc, cause>>
         ELSE /\ pc' = "aborted"
              /\ cause' = "source"
              /\ retry_count' = retry_count
    /\ UNCHANGED <<last_doc, fetched, chan, buf, short, items, pushed, wst, aonly>>
    /\ PipeFrame

\* records emitted so far: the Producer's cumulative count
EmittedCount == Len(Flatten([i \in DOMAIN items |-> items[i].docs]))

\* Producer: emit one WorkItem of W records; blocked while the channel is full.
PEmit ==
    /\ prog = "pipeline" /\ pc = "emit"
    /\ Len(chan) < queueMaxSize
    /\ LET item == SubSeq(buf, 1, W)
           rest == SubSeq(buf, W + 1, Len(buf))
       IN /\ items' = Append(items, [docs |-> item, pulls |-> 0, outcomes |-> 0])
          /\ chan' = Append(chan, Len(items) + 1)
          /\ pushed' = Append(pushed, "W")
          /\ buf' = rest
          /\ pc' = NextProducerPc(rest, W, short)
          /\ events' = Report(events, ProducedEvent(EmittedCount + Len(item)))
    /\ UNCHANGED <<last_doc, retry_count, fetched, short, wst, cause, agg, agg_hist, wcum>>
    /\ PipeFrame

\* Producer: emit the final partial WorkItem.
PFinal ==
    /\ prog = "pipeline" /\ pc = "final"
    /\ Len(chan) < queueMaxSize
    /\ items' = Append(items, [docs |-> buf, pulls |-> 0, outcomes |-> 0])
    /\ chan' = Append(chan, Len(items) + 1)
    /\ pushed' = Append(pushed, "W")
    /\ buf' = <<>>
    /\ pc' = "sentinels"
    /\ events' = Report(events, ProducedEvent(EmittedCount + Len(buf)))
    /\ UNCHANGED <<last_doc, retry_count, fetched, short, wst, cause, agg, agg_hist, wcum>>
    /\ PipeFrame

SentinelsPushed == Cardinality({i \in DOMAIN pushed : pushed[i] = "S"})

\* Producer: push one Sentinel per Worker, then exit.
PSentinel ==
    /\ prog = "pipeline" /\ pc = "sentinels"
    /\ Len(chan) < queueMaxSize
    /\ chan' = Append(chan, Sentinel)
    /\ pushed' = Append(pushed, "S")
    /\ pc' = IF SentinelsPushed + 1 >= workerCount THEN "exited" ELSE "sentinels"
    /\ UNCHANGED <<last_doc, retry_count, fetched, buf, short, items, wst, cause, aonly>>
    /\ PipeFrame

\* Worker w pulls the oldest item of the channel.
WPull(w) ==
    /\ prog = "pipeline"
    /\ wst[w].st = "idle"
    /\ chan # <<>>
    /\ chan' = Tail(chan)
    /\ IF Head(chan) = Sentinel
       THEN /\ wst' = [wst EXCEPT ![w].st = AfterSentinel, ![w].sentinels = @ + 1]
            /\ items' = items
       ELSE /\ wst' = [wst EXCEPT ![w].st = "busy", ![w].item = Head(chan)]
            /\ items' = [items EXCEPT ![Head(chan)].pulls = @ + 1]
    /\ UNCHANGED <<pc, last_doc, retry_count, fetched, buf, short, pushed, cause, aonly>>
    /\ PipeFrame

\* Worker w transforms and upserts its WorkItem and reports the BatchOutcome;
\* with an Aggregator listening it adds the rows to its own cumulative
\* counts, applied or (the batch failed) skipped, and reports them.
WProcess(w) ==
    /\ prog = "pipeline"
    /\ wst[w].st = "busy"
    /\ items' = [items EXCEPT ![wst[w].item].outcomes = @ + 1]
    /\ wst' = [wst EXCEPT ![w].st = "idle", ![w].item = 0]
    /\ IF agg.st = "polling"
       THEN \E ok \in BOOLEAN :
              LET n == Len(items[wst[w].item].docs)
                  c == IF ok THEN <<wcum[w][1] + n, wcum[w][2]>>
                       ELSE <<wcum[w][1], wcum[w][2] + n>>
              IN /\ wcum' = [wcum EXCEPT ![w] = c]
                 /\ events' = Append(events, ProgressEvent(w, c[1], c[2]))
       ELSE UNCHANGED <<wcum, events>>
    /\ UNCHANGED <<pc, last_doc, retry_count, fetched, chan, buf, short, pushed, cause,
                   agg, agg_hist>>
    /\ PipeFrame

ProducerStep == PFetchOk \/ PEmit \/ PFinal \/ PSentinel
Worker(w) == WPull(w) \/ WProcess(w)

NextPipe ==
    \/ PFetchOk
    \/ PFetchFail
    \/ PEmit
    \/ PFinal
    \/ PSentinel
    \/ \E w \in Workers : WPull(w)
    \/ \E w \in Workers : WProcess(w)

SpecPipe == InitPipe /\ [][NextPipe]_vars

\* Aggregator: consume the oldest event of the events channel.
AConsume ==
    /\ prog = "pipeline" /\ agg.st = "polling"
    /\ events # <<>>
    /\ agg' = Consume(agg, Head(events))
    /\ events' = Tail(events)
    /\ UNCHANGED <<pc, last_doc, retry_count, fetched, cause, ponly, agg_hist, wcum>>
    /\ PipeFrame

\* Aggregator: the timed receive timed out and the loop ends.
AExit ==
    /\ prog = "pipeline" /\ agg.st = "polling"
    /\ ExitCondition(events, pc, chan)
    /\ agg' = [agg EXCEPT !.st = "exited"]
    /\ UNCHANGED <<pc, last_doc, retry_count, fetched, cause, ponly, events, agg_hist, wcum>>
    /\ PipeFrame

NextAgg == NextPipe \/ AConsume \/ AExit
SpecAgg == InitAgg /\ [][NextAgg]_vars

\* The Aggregator alone, fed any sequence of events.
AllEvents ==
    {ProducedEvent(c) : c \in 0..MaxCount} \cup
    {ProgressEvent(w, a, k) : w \in Workers, a \in 0..MaxCount, k \in 0..MaxCount}

InitEvents ==
    /\ prog = "aggregator"
    /\ agg = AggPolling /\ agg_hist = AggHistPolling
    /\ events = <<>> /\ wcum = <<>>
    /\ chan = <<>> /\ buf = <<>> /\ short = FALSE
    /\ items = <<>> /\ pushed = <<>> /\ wst = <<>>
    /\ N = 0 /\ P = 1 /\ W = 1 /\ concurrency = workerCount
    /\ pc = "polling" /\ last_doc = 0 /\ retry_count = 0 /\ fetched = <<>>
    /\ run = "first" /\ cause = "none" /\ after_run = <<>>
    /\ dry_run = FALSE
    /\ store = [d \in DocIds |-> "absent"]
    /\ page_retried = FALSE
    /\ batches = <<>> /\ current_batch = <<>> /\ total_fetched = 0
    /\ fut = NoFut /\ totals = Totals0
    /\ MigrateIdle
    /\ RestIdle

AReceive ==
    /\ prog = "aggregator"
    /\ \E e \in AllEvents :
         /\ agg' = Consume(agg, e)
         /\ agg_hist' = Consumed(agg_hist, e)
    /\ UNCHANGED <<shared, bonly, monly, ponly, events, wcum, others>>

SpecEvents == InitEvents /\ [][AReceive]_vars

\* The Producer and every Worker are processes of their own: each keeps
\* running while it has a step to take.
SpecPipeFair ==
    /\ SpecPipe
    /\ WF_vars(ProducerStep)
    /\ \A w \in Workers : WF_vars(Worker(w))

\* ======================================================= verify_collection
\* src/backend/scripts/verify_hasAnyWebPresence.py; its FETCH_BATCH_SIZE and
\* max_retries are those of collect_batches.
\* hasAnyWebPresence as stored in the collection that is verified
VerifyValues == <<"true", "false", "absent">>

InitVerify ==
    /\ prog = "verify"
    /\ N \in 0..MaxCollectDocs
    /\ P = FETCH_BATCH_SIZE
    /\ sample_size \in {0, FETCH_BATCH_SIZE + 1}
    /\ store \in {[d \in DocIds |-> "absent"],
                  [d \in DocIds |-> IF d <= N THEN VerifyValues[((d - 1) % 3) + 1]
                                              ELSE "absent"]}
    /\ vcounts = VCounts0
    /\ pc = "collect"
    /\ last_doc = 0
    /\ retry_count = 0
    /\ page_retried = FALSE
    /\ last_error = "none" /\ wait_time = 0 /\ ExtraIdle
    /\ fetched = <<>>
    /\ run = "first" /\ cause = "none" /\ after_run = <<>>
    /\ W = 1 /\ concurrency = 1 /\ dry_run = FALSE
    /\ batches = <<>> /\ current_batch = <<>> /\ total_fetched = 0
    /\ fut = NoFut /\ totals = Totals0
    /\ MigrateIdle
    /\ PipeIdle
    /\ CsvIdle

\* the for-loop over docs_list (lines 164-182), left early once the sample is full
RECURSIVE VCount(_, _, _, _)
VCount(docs_list, i, c, sample) ==
    IF i > Len(docs_list) THEN c
    ELSE LET has == docs_list[i].has
             c1 == [total |-> c.total + 1,
                    has_field |-> c.has_field + (IF has # "absent" THEN 1 ELSE 0),
                    missing_field |-> c.missing_field + (IF has = "absent" THEN 1 ELSE 0),
                    true_count |-> c.true_count + (IF has = "true" THEN 1 ELSE 0),
                    false_count |-> c.false_count + (IF has = "false" THEN 1 ELSE 0)]
         IN IF sample # 0 /\ c1.total >= sample
            THEN c1
            ELSE VCount(docs_list, i + 1, c1, sample)

\* lines 192-208: the report divides by total_count
VReport(c) == IF c.total = 0 THEN "failed" ELSE "done"

VerifyFrame == UNCHANGED <<prog, N, P, W, concurrency, dry_run, store, batches,
                           current_batch, total_fetched, fut, totals, run, after_run,
                           sample_size, monly, ponly, aonly, conly, xonly>>

\* One pass of the retry loop with a successful query.get() (lines 119-127),
\* then the rest of the iteration (lines 161-190) and, when the loop ends,
\* the report.
VFetchOk ==
    /\ prog = "verify" /\ pc = "collect"
    /\ LET keys == QueryGet(last_doc, N, P)
           docs_list == [i \in 1..Len(keys) |-> [id |-> keys[i], has |-> store[keys[i]]]]
           c == VCount(docs_list, 1, vcounts, sample_size)
           ends == \/ Len(keys) = 0
                   \/ (sample_size # 0 /\ c.total >= sample_size)
                   \/ Len(keys) < P
       IN /\ fetched' = fetched \o keys
          /\ vcounts' = c
          /\ page_retried' = (retry_count > 0)
          /\ retry_count' = 0
          /\ last_error' = "none"
          /\ wait_time' = 0
          /\ last_doc' = IF ends THEN last_doc ELSE NextCursor(keys)
          /\ pc' = IF ends THEN VReport(c) ELSE "collect"
          /\ cause' = IF ends /\ VReport(c) = "failed" THEN "report" ELSE cause
    /\ VerifyFrame

\* query.get() raises.  listed: the exception is one of DeadlineExceeded,
\* ServiceUnavailable, ResourceExhausted, AttributeError (the first except
\* clause, lines 129-151, which re-raises what is not retryable); anything
\* else reaches the second clause (lines 153-159), which sleeps and continues.
VFetchFail ==
    /\ prog = "verify" /\ pc = "collect"
    /\ \E e \in {"retryable", "fatal"}, listed \in BOOLEAN :
         /\ retry_count' = retry_count + 1
         /\ last_error' = e
         /\ IF RetriesExhausted(retry_count + 1) \/ (listed /\ e = "fatal")
            THEN pc' = "failed" /\ cause' = "source" /\ wait_time' = wait_time
            ELSE /\ pc' = "collect" /\ cause' = cause
                 /\ wait_time' = FetchWaitTime(retry_count + 1)
    /\ UNCHANGED <<last_doc, page_retried, fetched, vcounts>>
    /\ VerifyFrame

NextVerify == VFetchOk \/ VFetchFail

\* ============================================================ csv import
\* src/scripts/import_csv2_quiet.py (process_file) and
\* src/scripts/import_csv2_to_companies.py (run_import), on one file.
\* Largest number of rows of the file.
MaxRows == 2

\* Cells of the corporate-number column.  digits, n: the digits left by
\* re.sub(r"[^\d]", "", s) and their number, for a text with "E" after
\* s = str(int(float(s))).
CorpCells ==
    [none   |-> [raw |-> "", digits |-> "", n |-> 0],
     full   |-> [raw |-> "1234567890123", digits |-> "1234567890123", n |-> 13],
     exp    |-> [raw |-> "1.23E+12", digits |-> "1230000000000", n |-> 13],
     twelve |-> [raw |-> "123456789012", digits |-> "123456789012", n |-> 12],
     short  |-> [raw |-> "12345", digits |-> "12345", n |-> 5]]

\* Cells of the phone column.  len: len(s); date: the text starts with a date
\* (yyyy/ or yyyy年); digits, n: its digits and their number.
PhoneCells ==
    [none  |-> [raw |-> "", len |-> 0, date |-> FALSE, digits |-> "", n |-> 0],
     tel   |-> [raw |-> "03-1234-5678", len |-> 12, date |-> FALSE, digits |-> "0312345678", n |-> 10],
     date  |-> [raw |-> "2020/01/01", len |-> 10, date |-> TRUE, digits |-> "20200101", n |-> 8],
     short |-> [raw |-> "12345", len |-> 5, date |-> FALSE, digits |-> "12345", n |-> 5]]

\* The rows a file is made of: cells is len(row); d is the cell of a column
\* filled with COALESCE (not in OVERWRITE_COLS), o of a column of OVERWRITE_COLS.
RowKinds ==
    {[cells |-> 4, corp |-> CorpCells.full,   phone |-> PhoneCells.none,  d |-> "x", o |-> ""],
     [cells |-> 4, corp |-> CorpCells.short,  phone |-> PhoneCells.tel,   d |-> "",  o |-> "y"],
     [cells |-> 4, corp |-> CorpCells.none,   phone |-> PhoneCells.date,  d |-> "x", o |-> ""],
     [cells |-> 4, corp |-> CorpCells.exp,    phone |-> PhoneCells.none,  d |-> "",  o |-> ""],
     [cells |-> 0, corp |-> CorpCells.none,   phone |-> PhoneCells.none,  d |-> "",  o |-> ""],
     [cells |-> 4, corp |-> CorpCells.twelve, phone |-> PhoneCells.short, d |-> "x", o |-> ""]}

\* What the header of the file maps: nothing (the file is empty), or some of
\* the key columns; the data columns are always there.
HeaderKinds ==
    {[empty |-> TRUE,  corp |-> FALSE, phone |-> FALSE, name |-> FALSE],
     [empty |-> FALSE, corp |-> FALSE, phone |-> FALSE, name |-> FALSE],
     [empty |-> FALSE, corp |-> FALSE, phone |-> FALSE, name |-> TRUE],
     [empty |-> FALSE, corp |-> TRUE,  phone |-> FALSE, name |-> FALSE],
     [empty |-> FALSE, corp |-> FALSE, phone |-> TRUE,  name |-> FALSE],
     [empty |-> FALSE, corp |-> TRUE,  phone |-> TRUE,  name |-> TRUE]}

\* The companies table: two rows, keyed 1 and 2.
CompanyIds == 1..2
Companies(v) ==
    [id \in CompanyIds |->
        IF id = 1
        THEN [corporate_number |-> "1234567890123", phone_number |-> "03-1234-5678",
              d |-> v, o |-> v]
        ELSE [corporate_number |-> "1230000000000", phone_number |-> "null",
              d |-> v, o |-> v]]

\* import_csv2_quiet.normalize_corporate_number ("none" is None)
normalize_corporate_number(val) ==
    IF val.raw = "" THEN "none"
    ELSE IF val.n = 13 THEN val.digits
    ELSE "none"

\* import_csv2_quiet.normalize_phone
normalize_phone(val) ==
    IF val.raw = "" THEN "none"
    ELSE IF val.date THEN "none"
    ELSE IF 9 <= val.n /\ val.n <= 11 THEN val.digits
    ELSE "none"

\* import_csv2_to_companies.normalize_corporate_number: 12 digits get a leading 0
normalize_corporate_number_to_companies(val) ==
    IF val.raw = "" THEN "none"
    ELSE IF val.n = 12 THEN "0" \o val.digits
    ELSE IF val.n # 13 THEN "none"
    ELSE val.digits

\* import_csv2_to_companies.normalize_phone: the text itself is returned
normalize_phone_to_companies(val) ==
    IF val.raw = "" \/ val.len < 10 THEN "none"
    ELSE IF val.date THEN "none"
    ELSE IF val.n < 9 THEN "none"
    ELSE val.raw

\* REPLACE(REPLACE(phone_number, '-', ''), ' ', '') on the stored phone numbers
StripPhone(p) == IF p = "03-1234-5678" THEN "0312345678" ELSE p

\* faulty variant of LacksIdentifier: the test is gone
LacksIdentifierNever(corp_num, phone_num) == FALSE

\* line 223 (quiet), line 264 (to_companies): if not corp and not phone
LacksIdentifier(corp_num, phone_num) == corp_num = "none" /\ phone_num = "none"

\* the rows of the table a statement's WHERE clause matches
Matched(table, by, match_val, strip) ==
    {id \in CompanyIds :
        IF by = "corp" THEN table[id].corporate_number = match_val
        ELSE table[id].phone_number # "null" /\
             (IF strip THEN StripPhone(table[id].phone_number) ELSE table[id].phone_number)
                 = match_val}

\* import_csv2_quiet, lines 257-263: col = %s for OVERWRITE_COLS,
\* col = COALESCE(col, %s) for the others
SetClauses(old, update_params) ==
    [old EXCEPT !.o = IF update_params.o # "" THEN update_params.o ELSE @,
                !.d = IF update_params.d # "" /\ @ = "null" THEN update_params.d ELSE @]

\* import_csv2_to_companies, lines 332-334: "k" = %s for every key of updates
SetParts(old, updates) ==
    [old EXCEPT !.o = IF updates.o # "" THEN updates.o ELSE @,
                !.d = IF updates.d # "" THEN updates.d ELSE @,
                !.phone_number = IF updates.phone # "none" THEN updates.phone ELSE @]

RowSeqs == UNION {[1..n -> RowKinds] : n \in 0..MaxRows}

QStats0 == [updates_in_file |-> 0, skip_count |-> 0, error_count |-> 0]
IStats0 == [files |-> 0, rows |-> 0, updated_corp |-> 0, updated_phone |-> 0,
            no_match |-> 0, skip |-> 0]

InitCsv ==
    /\ prog \in {"quiet", "to_companies"}
    /\ col_idx_map \in HeaderKinds
    /\ csv_rows \in RowSeqs
    /\ col_idx_map.empty => csv_rows = <<>>
    /\ dry_run \in BOOLEAN
    /\ db \in {Companies("null"), Companies("old")}
    /\ tx = db
    /\ tx_failed = FALSE
    /\ row_num = 1
    /\ stats = IF prog = "quiet" THEN QStats0 ELSE IStats0
    /\ submitted = <<>>
    /\ skipped_rows = {}
    /\ tx_updates = 0
    /\ pc = "open"
    /\ N = 0 /\ P = 1 /\ last_doc = 0 /\ fetched = <<>>
    /\ run = "first" /\ cause = "none" /\ after_run = <<>>
    /\ W = 1 /\ concurrency = 1
    /\ store = [d \in DocIds |-> "absent"]
    /\ retry_count = 0 /\ page_retried = FALSE
    /\ batches = <<>> /\ current_batch = <<>> /\ total_fetched = 0
    /\ fut = NoFut /\ totals = Totals0
    /\ MigrateIdle
    /\ PipeIdle
    /\ last_error = "none" /\ wait_time = 0 /\ ExtraIdle
    /\ VerifyIdle

CsvFrame == UNCHANGED <<prog, N, P, last_doc, fetched, run, after_run, bonly, monly,
                        ponly, aonly, last_error, wait_time, vonly, xonly, col_idx_map, csv_rows>>

\* process_file up to the row loop (lines 178-203): an empty file and a file
\* without a key column are left at once; conn is None under --dry-run
\* (main, lines 340-353), so conn.cursor() raises and main logs the error.
QOpen ==
    /\ prog = "quiet" /\ pc = "open"
    /\ IF col_idx_map.empty \/ (~col_idx_map.corp /\ ~col_idx_map.phone)
       THEN pc' = "skipped" /\ cause' = cause
       ELSE IF dry_run
            THEN pc' = "failed" /\ cause' = "conn"
            ELSE pc' = "rows" /\ cause' = cause
    /\ UNCHANGED <<row_num, stats, db, tx, tx_failed, submitted, skipped_rows, tx_updates>>
    /\ CsvFrame

\* line 303: conn.rollback() discards all that is not yet committed
Rollback(committed, open) == committed

\* faulty variant of LoopEnded: the loop is left after a row error
LoopEndedOnError == row_num > Len(csv_rows) \/ stats.error_count > 0

\* line 205: for row_num, row in enumerate(reader, 1) has no row left
LoopEnded == row_num > Len(csv_rows)

\* the body of the row loop of process_file for one row (lines 205-311)
QRow ==
    /\ prog = "quiet" /\ pc = "rows" /\ ~LoopEnded
    /\ LET row == csv_rows[row_num]
           corp_num == IF col_idx_map.corp /\ row.cells > 0
                       THEN normalize_corporate_number(row.corp) ELSE "none"
           phone_num == IF col_idx_map.phone /\ row.cells > 0
                        THEN normalize_phone(row.phone) ELSE "none"
           update_params == [d |-> IF row.cells > 0 THEN row.d ELSE "",
                             o |-> IF row.cells > 0 THEN row.o ELSE ""]
           by == IF corp_num # "none" THEN "corp" ELSE "phone"
           match_val == IF corp_num # "none" THEN corp_num ELSE phone_num
           hit == Matched(tx, by, match_val, TRUE)
       IN IF LacksIdentifier(corp_num, phone_num)
          THEN /\ stats' = [stats EXCEPT !.skip_count = @ + 1]
               /\ skipped_rows' = skipped_rows \cup {row_num}
               /\ UNCHANGED <<tx, submitted, tx_updates>>
          ELSE IF update_params.d = "" /\ update_params.o = ""
          THEN UNCHANGED <<stats, skipped_rows, tx, submitted, tx_updates>>
          ELSE IF dry_run
          THEN /\ stats' = [stats EXCEPT !.updates_in_file = @ + 1]
               /\ UNCHANGED <<skipped_rows, tx, submitted, tx_updates>>
          ELSE /\ submitted' = Append(submitted, [row |-> row_num, match_val |-> match_val])
               /\ skipped_rows' = skipped_rows
               /\ \E outcome \in {"ok", "error"} :
                    IF outcome = "ok"
                    THEN /\ tx' = [id \in CompanyIds |->
                                      IF id \in hit THEN SetClauses(tx[id], update_params)
                                      ELSE tx[id]]
                         /\ stats' = [stats EXCEPT !.updates_in_file =
                                          IF hit # {} THEN @ + 1 ELSE @]
                         /\ tx_updates' = IF hit # {} THEN tx_updates + 1 ELSE tx_updates
                    ELSE /\ tx' = Rollback(db, tx)
                         /\ tx_updates' = 0
                         /\ stats' = [stats EXCEPT !.error_count = @ + 1]
    /\ row_num' = row_num + 1
    /\ UNCHANGED <<pc, cause, db, tx_failed>>
    /\ CsvFrame

\* lines 313-319: conn.commit() after the last row
QCommit ==
    /\ prog = "quiet" /\ pc = "rows" /\ LoopEnded
    /\ db' = tx
    /\ pc' = "done"
    /\ UNCHANGED <<cause, row_num, stats, tx, tx_failed, submitted, skipped_rows, tx_updates>>
    /\ CsvFrame

\* run_import up to the row loop (lines 233-252): a file that cannot be read
\* (no header) is skipped, a file without name, corporate number and phone
\* columns is counted in stats["skip"].
IOpen ==
    /\ prog = "to_companies" /\ pc = "open"
    /\ IF col_idx_map.empty
       THEN pc' = "skipped" /\ stats' = stats
       ELSE IF ~col_idx_map.name /\ ~col_idx_map.corp /\ ~col_idx_map.phone
            THEN pc' = "skipped" /\ stats' = [stats EXCEPT !.skip = @ + 1]
            ELSE pc' = "rows" /\ stats' = [stats EXCEPT !.files = @ + 1]
    /\ UNCHANGED <<cause, row_num, db, tx, tx_failed, submitted, skipped_rows, tx_updates>>
    /\ CsvFrame

\* the body of the row loop of run_import for one row (lines 253-355); a
\* statement executed after a failed one fails as well, the transaction being
\* aborted until a rollback.
IRow ==
    /\ prog = "to_companies" /\ pc = "rows" /\ row_num <= Len(csv_rows)
    /\ LET row == csv_rows[row_num]
           corp == IF col_idx_map.corp THEN normalize_corporate_number_to_companies(row.corp)
                   ELSE "none"
           phone == IF col_idx_map.phone THEN normalize_phone_to_companies(row.phone)
                    ELSE "none"
           updates == [d |-> row.d, o |-> row.o, phone |-> phone]
           by == IF corp # "none" THEN "corp" ELSE "phone"
           match_val == IF corp # "none" THEN corp ELSE phone
           hit == Matched(tx, by, match_val, FALSE)
           updated == IF corp # "none"
                      THEN [stats EXCEPT !.rows = @ + 1, !.updated_corp = @ + 1]
                      ELSE [stats EXCEPT !.rows = @ + 1, !.updated_phone = @ + 1]
       IN IF row.cells = 0
          THEN UNCHANGED <<stats, skipped_rows, tx, tx_failed, submitted>>
          ELSE IF LacksIdentifier(corp, phone)
          THEN /\ stats' = [stats EXCEPT !.rows = @ + 1, !.no_match = @ + 1]
               /\ skipped_rows' = skipped_rows \cup {row_num}
               /\ UNCHANGED <<tx, tx_failed, submitted>>
          ELSE IF updates.d = "" /\ updates.o = "" /\ updates.phone = "none"
          THEN /\ stats' = [stats EXCEPT !.rows = @ + 1]
               /\ UNCHANGED <<skipped_rows, tx, tx_failed, submitted>>
          ELSE IF dry_run
          THEN /\ stats' = updated
               /\ UNCHANGED <<skipped_rows, tx, tx_failed, submitted>>
          ELSE /\ submitted' = Append(submitted, [row |-> row_num, match_val |-> match_val])
               /\ skipped_rows' = skipped_rows
               /\ \E outcome \in {"ok", "error"} :
                    IF outcome = "ok" /\ ~tx_failed
                    THEN /\ tx' = [id \in CompanyIds |->
                                      IF id \in hit THEN SetParts(tx[id], updates)
                                      ELSE tx[id]]
                         /\ tx_failed' = FALSE
                         /\ stats' = IF hit # {} THEN updated
                                     ELSE [stats EXCEPT !.rows = @ + 1, !.no_match = @ + 1]
                    ELSE /\ tx' = tx
                         /\ tx_failed' = TRUE
                         /\ stats' = [stats EXCEPT !.rows = @ + 1]
    /\ row_num' = row_num + 1
    /\ UNCHANGED <<pc, cause, db, tx_updates>>
    /\ CsvFrame

\* lines 360-371: conn.commit() when there is a connection; committing an
\* aborted transaction rolls it back.
ICommit ==
    /\ prog = "to_companies" /\ pc = "rows" /\ row_num > Len(csv_rows)
    /\ db' = IF dry_run \/ tx_failed THEN db ELSE tx
    /\ pc' = "done"
    /\ UNCHANGED <<cause, row_num, stats, tx, tx_failed, submitted, skipped_rows, tx_updates>>
    /\ CsvFrame

NextCsv == QOpen \/ QRow \/ QCommit \/ IOpen \/ IRow \/ ICommit

SpecCsv == InitCsv /\ [][NextCsv]_vars
\* every statement returns or raises: a step that can be taken is taken
SpecCsvFair == SpecCsv /\ WF_vars(NextCsv)

\* ============================================================ parse_numeric
\* import_csv2_quiet.parse_numeric and import_csv2_to_companies.parse_numeric.
\* A cell text is a sequence of characters; "M" stands for the suffix 百万円,
\* "K" for 千円, "x" for any other character.  An integer is the sequence of
\* its decimal digits without leading zeros, None is the empty sequence: the
\* units being powers of ten, scaling moves the decimal point.
MaxLen == 4
DigitChars == {"5", "0"}
Chars == DigitChars \cup {".", ",", "M", "K", "x"}
None == <<>>

IsDigit(ch) == ch \in DigitChars
IsNotComma(ch) == ch # ","
IsNotM(ch) == ch # "M"
IsNotK(ch) == ch # "K"
Contains(str, ch) == \E i \in DOMAIN str : str[i] = ch

\* the headers of import_csv2_quiet: without a unit, with 百万, with 千円
Headers == {"plain", "millions", "thousands"}

\* lines 149-153 of import_csv2_quiet: the power of ten the header stands for
HeaderScale(header) ==
    IF header = "millions" THEN 6 ELSE IF header = "thousands" THEN 3 ELSE 0

\* float(s) succeeds: digits with at most one point and at least one digit
IsFloat(str) ==
    /\ \A i \in DOMAIN str : str[i] \in DigitChars \cup {"."}
    /\ Cardinality({i \in DOMAIN str : str[i] = "."}) <= 1
    /\ \E i \in DOMAIN str : IsDigit(str[i])

\* the digits before and after the point of a text float() accepts
WholePart(str) ==
    IF Contains(str, ".")
    THEN SubSeq(str, 1, (CHOOSE i \in DOMAIN str : str[i] = ".") - 1)
    ELSE str
FracPart(str) ==
    IF Contains(str, ".")
    THEN SubSeq(str, (CHOOSE i \in DOMAIN str : str[i] = ".") + 1, Len(str))
    ELSE <<>>

RECURSIVE StripZeros(_)
StripZeros(digits) ==
    IF digits = <<>> THEN <<"0">>
    ELSE IF Head(digits) = "0" THEN StripZeros(Tail(digits))
    ELSE digits

\* int(whole.frac * 10 ** scale): the point moves scale places to the right
\* and what is left behind it is cut off
ScaledInt(whole, frac, scale) ==
    StripZeros(whole \o [i \in 1..scale |-> IF i <= Len(frac) THEN frac[i] ELSE "0"])

\* import_csv2_quiet.parse_numeric(header, val), lines 145-165
parse_numeric(header, val) ==
    IF val = <<>> THEN None
    ELSE LET scale == IF Contains(val, "M") THEN 6
                      ELSE IF Contains(val, "K") THEN 3
                      ELSE HeaderScale(header)
             s1 == IF Contains(val, "M") THEN SelectSeq(val, IsNotM)
                   ELSE IF Contains(val, "K") THEN SelectSeq(val, IsNotK)
                   ELSE val
             s2 == SelectSeq(s1, IsNotComma)
         IN IF IsFloat(s2)
            THEN ScaledInt(WholePart(s2), FracPart(s2), scale)
            ELSE None

\* RE_MAN_YEN.search(s), line 71: the leftmost run of digits and commas that
\* is followed by the suffix; <<0, 0>> when there is none
ManYenMatch(str) ==
    LET starts == {i \in DOMAIN str :
                     \E j \in i..Len(str) :
                        /\ \A k \in i..j : str[k] \in DigitChars \cup {","}
                        /\ j < Len(str) /\ str[j + 1] = "M"}
    IN IF starts = {} THEN <<0, 0>>
       ELSE LET i == CHOOSE a \in starts : \A b \in starts : a <= b
                j == CHOOSE b \in i..Len(str) :
                        /\ \A k \in i..b : str[k] \in DigitChars \cup {","}
                        /\ b < Len(str) /\ str[b + 1] = "M"
            IN <<i, j>>

\* import_csv2_to_companies.parse_numeric(val), lines 147-169
parse_numeric_to_companies(val) ==
    IF val = <<>> THEN None
    ELSE LET m == ManYenMatch(val)
         IN IF m # <<0, 0>>
            THEN LET digits == SelectSeq(SubSeq(val, m[1], m[2]), IsNotComma)
                 IN IF digits = <<>> THEN None
                    ELSE ScaledInt(digits, <<>>, 6)
            ELSE LET s2 == SelectSeq(val, IsNotComma)
                 IN IF IsFloat(s2)
                    THEN ScaledInt(WholePart(s2), FracPart(s2), 0)
                    ELSE None

RECURSIVE Texts(_)
Texts(n) ==
    IF n = 0 THEN {<<>>}
    ELSE Texts(n - 1) \cup {Append(t, ch) : t \in Texts(n - 1), ch \in Chars}

\* the cell texts tried: every text of at most MaxLen characters, and "5000000"
CellTexts == Texts(MaxLen) \cup {<<"5", "0", "0", "0", "0", "0", "0">>}

\* the variables of the scripts modelled above while another program runs
ScriptsIdle ==
    /\ N = 0 /\ P = 1 /\ last_doc = 0 /\ fetched = <<>>
    /\ run = "first" /\ cause = "none" /\ after_run = <<>>
    /\ W = 1
    /\ store = [d \in DocIds |-> "absent"]
    /\ retry_count = 0 /\ page_retried = FALSE
    /\ batches = <<>> /\ current_batch = <<>> /\ total_fetched = 0
    /\ fut = NoFut /\ totals = Totals0
    /\ MigrateIdle
    /\ PipeIdle
    /\ last_error = "none" /\ wait_time = 0
    /\ VerifyIdle
    /\ CsvIdle

InitNumeric ==
    /\ prog = "numeric" /\ pc = "parse"
    /\ num_in \in ([script : {"quiet"}, header : Headers, val : CellTexts]
                    \cup [script : {"to_companies"}, header : {"plain"}, val : CellTexts])
    /\ num_out = <<>>
    /\ concurrency = 1 /\ dry_run = FALSE
    /\ ScriptsIdle
    /\ ScrapeIdle
    /\ EdinetIdle

\* import_csv2_quiet, line 238: num_val = parse_numeric(header_names[db_col], val)
ParseQuiet ==
    /\ prog = "numeric" /\ pc = "parse" /\ num_in.script = "quiet"
    /\ num_out' = parse_numeric(num_in.header, num_in.val)
    /\ pc' = "parsed"
    /\ UNCHANGED <<prog, N, P, last_doc, retry_count, fetched, run, cause, after_run,
                   bonly, monly, ponly, aonly, last_error, wait_time, vonly, conly, num_in,
                   sonly, eonly>>

\* import_csv2_to_companies, lines 289-302: parse_numeric(get_cell(row, ...))
ParseToCompanies ==
    /\ prog = "numeric" /\ pc = "parse" /\ num_in.script = "to_companies"
    /\ num_out' = parse_numeric_to_companies(num_in.val)
    /\ pc' = "parsed"
    /\ UNCHANGED <<prog, N, P, last_doc, retry_count, fetched, run, cause, after_run,
                   bonly, monly, ponly, aonly, last_error, wait_time, vonly, conly, num_in,
                   sonly, eonly>>

NextNumeric == ParseQuiet \/ ParseToCompanies
SpecNumeric == InitNumeric /\ [][NextNumeric]_vars

\* ================================================= scrape_company_homepage
\* The columns the scraper reads and writes.  A column holds "" (NULL or
\* blank), a value it had before the run ("old"; company_url: "root", the
\* root of the site, or "page", a deeper address of it) or a scraped value
\* ("new"; the company_url scraped is always "root").
FetchedCols == {"company_url", "contact_form_url", "phone_number", "representative_name"}
ScrapedCols == FetchedCols \cup {"contact_phone_number"}

\* --workers (default 3); scaled to 2
ScrapeWorkers == 2

CompanyRows ==
    {r \in [ScrapedCols -> {"", "old", "root", "page"}] :
        /\ r["company_url"] \in {"", "root", "page"}
        /\ \A col \in ScrapedCols \ {"company_url"} : r[col] \in {"", "old"}}

\* fetch_companies (lines 393-417): the rows with a blank company_url,
\* contact_form_url, phone_number or representative_name, ordered by id
NeedsScraping(r) == \E col \in FetchedCols : r[col] = ""
RECURSIVE fetch_companies(_, _)
fetch_companies(table, id) ==
    IF id > Len(table) THEN <<>>
    ELSE IF NeedsScraping(table[id])
         THEN <<[id |-> id, cols |-> [col \in FetchedCols |-> table[id][col]]]>>
                 \o fetch_companies(table, id + 1)
         ELSE fetch_companies(table, id + 1)

\* process_one_company, lines 500-508
NullFields(row) == {col \in FetchedCols : row.cols[col] = ""}

\* _scrape_page, line 284: the condition under which a page is searched for a
\* phone number
PhoneWanted(null_fields) ==
    \/ "phone_number" \in null_fields
    \/ "representative_name" \in null_fields
    \/ "contact_form_url" \in null_fields

\* scrape_from_homepage (lines 319-373) on pages that offer the fields in
\* found; linked: the second request of the homepage succeeded, after which
\* company_url is set to the root of the site.  A field not in data is "".
scrape_from_homepage(null_fields, found, linked) ==
    [col \in FetchedCols |->
        IF col = "phone_number"
        THEN (IF PhoneWanted(null_fields) /\ col \in found THEN "new" ELSE "")
        ELSE IF col = "company_url"
        THEN (IF null_fields # {} /\ linked THEN "root" ELSE "")
        ELSE (IF col \in null_fields /\ col \in found THEN "new" ELSE "")]

\* update_company, lines 428-445: the columns to update and their values
Updates(data) ==
    [col \in ScrapedCols |->
        IF col = "contact_phone_number" THEN data["phone_number"] ELSE data[col]]

\* line 454: col = COALESCE(NULLIF(%s, ''), col)
SetPart(stored, val) == IF val # "" THEN val ELSE stored

\* update_company, lines 447-466: the row after the UPDATE
update_company(r, data) ==
    [col \in ScrapedCols |-> SetPart(r[col], Updates(data)[col])]

InitScrape ==
    /\ prog = "scrape" /\ pc = "fetch"
    /\ companies \in [CompanyIds -> CompanyRows]
    /\ companies[2]["company_url"] = ""
    /\ \A col \in ScrapedCols \ {"company_url"} :
          companies[2][col] = companies[2]["phone_number"]
    /\ rows = <<>> /\ sfut = <<>> /\ conns = <<>>
    /\ dry_run \in BOOLEAN
    /\ concurrency = ScrapeWorkers
    /\ ScriptsIdle
    /\ NumIdle
    /\ EdinetIdle

ScrapeFrame == UNCHANGED <<prog, N, P, last_doc, fetched, run, cause, after_run, bonly,
                           monly, ponly, aonly, last_error, wait_time, vonly, conly, nonly,
                           eonly>>

\* main, lines 557-584: the rows are fetched on a connection of main's own,
\* and one call of process_one_company per row is submitted
SFetch ==
    /\ prog = "scrape" /\ pc = "fetch"
    /\ rows' = fetch_companies(companies, 1)
    /\ sfut' = [k \in DOMAIN rows' |->
                  [st |-> "pending", data |-> <<>>, status |-> "skipped"]]
    /\ conns' = [k \in DOMAIN rows' |-> "none"]
    /\ pc' = IF rows' = <<>> THEN "done" ELSE "processing"
    /\ UNCHANGED companies
    /\ ScrapeFrame

ScrapeRunning == {k \in DOMAIN sfut : sfut[k].st \in {"scraping", "connected"}}

\* a pool thread takes the oldest call not yet started
SStart(k) ==
    /\ prog = "scrape" /\ pc = "processing"
    /\ sfut[k].st = "pending"
    /\ \A j \in DOMAIN sfut : sfut[j].st = "pending" => k <= j
    /\ Cardinality(ScrapeRunning) < concurrency
    /\ sfut' = [sfut EXCEPT ![k].st = "scraping"]
    /\ UNCHANGED <<pc, companies, rows, conns>>
    /\ ScrapeFrame

\* process_one_company, lines 512-526: the search for a site when the row has
\* none, the scraping, and psycopg2.connect, which may raise
SScrape(k) ==
    /\ prog = "scrape" /\ pc = "processing"
    /\ sfut[k].st = "scraping"
    /\ \E site \in BOOLEAN, found \in SUBSET FetchedCols, linked \in BOOLEAN,
          connected \in BOOLEAN :
         LET null_fields == NullFields(rows[k])
             data == scrape_from_homepage(null_fields, found, linked)
         IN IF rows[k].cols["company_url"] = "" /\ ~site
            THEN /\ sfut' = [sfut EXCEPT ![k].st = "done", ![k].status = "no_url"]
                 /\ conns' = conns
            ELSE IF \A col \in FetchedCols : data[col] = ""
            THEN /\ sfut' = [sfut EXCEPT ![k].st = "done", ![k].status = "no_data"]
                 /\ conns' = conns
            ELSE IF ~connected
            THEN /\ sfut' = [sfut EXCEPT ![k].st = "done", ![k].status = "error"]
                 /\ conns' = conns
            ELSE /\ sfut' = [sfut EXCEPT ![k].st = "connected", ![k].data = data]
                 /\ conns' = [conns EXCEPT ![k] = "open"]
    /\ UNCHANGED <<pc, companies, rows>>
    /\ ScrapeFrame

\* process_one_company, lines 528-534: update_company on the connection of
\* this call, which the finally clause closes whether the UPDATE raised or not
SUpdate(k) ==
    /\ prog = "scrape" /\ pc = "processing"
    /\ sfut[k].st = "connected"
    /\ \E outcome \in {"ok", "error"} :
         IF outcome = "ok"
         THEN /\ companies' = IF dry_run THEN companies
                              ELSE [companies EXCEPT ![rows[k].id] =
                                       update_company(@, sfut[k].data)]
              /\ sfut' = [sfut EXCEPT ![k].st = "done", ![k].status = "success"]
         ELSE /\ companies' = companies
              /\ sfut' = [sfut EXCEPT ![k].st = "done", ![k].status = "error"]
    /\ conns' = [conns EXCEPT ![k] = "closed"]
    /\ UNCHANGED <<pc, rows>>
    /\ ScrapeFrame

\* main, lines 585-598: every future was yielded by as_completed
SDone ==
    /\ prog = "scrape" /\ pc = "processing"
    /\ \A k \in DOMAIN sfut : sfut[k].st = "done"
    /\ pc' = "done"
    /\ UNCHANGED <<companies, rows, sfut, conns>>
    /\ ScrapeFrame

NextScrape ==
    \/ SFetch
    \/ \E k \in DOMAIN sfut : SStart(k)
    \/ \E k \in DOMAIN sfut : SScrape(k)
    \/ \E k \in DOMAIN sfut : SUpdate(k)
    \/ SDone
SpecScrape == InitScrape /\ [][NextScrape]_vars

\* ================================================== fetch_edinet_relations
\* The securities codes of a run, scaled to two.
MaxCodes == 2
SecCodes == 1..MaxCodes

\* lists of distinct codes
CodeLists ==
    {l \in UNION {[1..n -> SecCodes] : n \in 0..MaxCodes} :
        \A i, j \in DOMAIN l : i # j => l[i] # l[j]}

\* load_processed_codes, lines 244-249
load_processed_codes(file) == file

\* save_processed_code, lines 252-256
save_processed_code(file, sec) == file \cup {sec}

InitEdinet ==
    /\ prog = "edinet" /\ pc = "start"
    /\ mode \in {"codes", "doc_id_csv", "doc_id"}
    /\ no_resume \in BOOLEAN
    /\ codes \in CodeLists
    /\ processed_file \in SUBSET SecCodes
    /\ processed = {} /\ idx = 0 /\ download_failed = {} /\ recorded = {}
    /\ concurrency = 1 /\ dry_run = FALSE
    /\ ScriptsIdle
    /\ NumIdle
    /\ ScrapeIdle

EdinetFrame == UNCHANGED <<prog, N, P, last_doc, fetched, run, cause, after_run, bonly,
                           monly, ponly, aonly, last_error, wait_time, vonly, conly, nonly,
                           sonly>>

\* main, lines 811-815: the file is loaded unless --no-resume, and outside the
\* two document-id modes the codes already in it are dropped from the list
EStart ==
    /\ prog = "edinet" /\ pc = "start"
    /\ processed' = IF no_resume THEN {} ELSE load_processed_codes(processed_file)
    /\ codes' = IF processed' # {} /\ mode = "codes"
                THEN SelectSeq(codes, LAMBDA sec : sec \notin processed')
                ELSE codes
    /\ idx' = 1
    /\ pc' = "loop"
    /\ UNCHANGED <<mode, no_resume, processed_file, download_failed, recorded>>
    /\ EdinetFrame

\* main, lines 826-845: one document by its id; the file is not written
EDocId ==
    /\ prog = "edinet" /\ pc = "loop" /\ mode = "doc_id"
    /\ pc' = "done"
    /\ UNCHANGED eonly
    /\ EdinetFrame

\* main, lines 856-878: one turn of the loop over the DocID table
ECsvStep ==
    /\ prog = "edinet" /\ pc = "loop" /\ mode = "doc_id_csv"
    /\ idx <= Len(codes)
    /\ LET sec == codes[idx]
       IN \E zip_bytes \in BOOLEAN :
            IF sec \in processed
            THEN UNCHANGED <<processed_file, download_failed, recorded>>
            ELSE IF ~zip_bytes
            THEN \* lines 864-867: the code is saved before continue
                 /\ download_failed' = download_failed \cup {sec}
                 /\ processed_file' = save_processed_code(processed_file, sec)
                 /\ recorded' = recorded \cup {sec}
            ELSE /\ processed_file' = save_processed_code(processed_file, sec)
                 /\ recorded' = recorded \cup {sec}
                 /\ UNCHANGED download_failed
    /\ idx' = idx + 1
    /\ UNCHANGED <<pc, mode, no_resume, codes, processed>>
    /\ EdinetFrame

\* main, lines 912-955: one turn of the loop over the codes; doc_info: the
\* cache holds a report of the code, unique: relations were extracted
ECodeStep ==
    /\ prog = "edinet" /\ pc = "loop" /\ mode = "codes"
    /\ idx <= Len(codes)
    /\ LET sec == codes[idx]
       IN \E doc_info \in BOOLEAN, zip_bytes \in BOOLEAN, unique \in BOOLEAN :
            IF ~doc_info
            THEN /\ processed_file' = save_processed_code(processed_file, sec)
                 /\ recorded' = recorded \cup {sec}
                 /\ UNCHANGED download_failed
            ELSE IF ~zip_bytes
            THEN \* lines 932-935: continue, nothing is saved
                 /\ download_failed' = download_failed \cup {sec}
                 /\ UNCHANGED <<processed_file, recorded>>
            ELSE IF unique
            THEN /\ processed_file' = save_processed_code(processed_file, sec)
                 /\ recorded' = recorded \cup {sec}
                 /\ UNCHANGED download_failed
            ELSE UNCHANGED <<processed_file, download_failed, recorded>>
    /\ idx' = idx + 1
    /\ UNCHANGED <<pc, mode, no_resume, codes, processed>>
    /\ EdinetFrame

\* main, lines 957-958: the loop is over
EDone ==
    /\ prog = "edinet" /\ pc = "loop" /\ mode # "doc_id"
    /\ idx > Len(codes)
    /\ pc' = "done"
    /\ UNCHANGED eonly
    /\ EdinetFrame

NextEdinet == EStart \/ EDocId \/ ECsvStep \/ ECodeStep \/ EDone
SpecEdinet == InitEdinet /\ [][NextEdinet]_vars

Init == InitBackfill \/ InitMigrate
Next == NextBackfill \/ NextMigrate
Spec == Init /\ [][Next]_vars

\* The extraction of the scripts: collect_batches on larger collections,
\* migrate_companies and verify_collection.
InitExtract == InitCollect \/ InitMigrate \/ InitVerify
NextExtract == NextCollect \/ NextMigrate \/ NextVerify
SpecExtract == InitExtract /\ [][NextExtract]_vars
\* every call returns or raises: a step that can be taken is taken
SpecExtractFair == SpecExtract /\ WF_vars(NextExtract)

\* ================================================================ claims
Applied(d) ==
    IF prog = "migrate" THEN d <= N /\ sink[d] = src[d]
    ELSE d <= N /\ store[d] = FieldOf(calculate_has_any_web_presence(d))

\* C1: once every batch of a run is collected, the reported counts
\* updated + skipped + errors add up to the number of documents fetched.
C1_Completeness ==
    (prog = "backfill" /\ pc = "done") =>
        totals.updated + totals.skipped + totals.errors = total_fetched

\* C2: the number of work items emitted and not yet pulled by a worker never
\* exceeds queueMaxSize.
C2_BackpressureBound ==
    prog = "backfill" => Cardinality(Pending) <= queueMaxSize

\* C3: an upsert leaves a stored column unchanged when the incoming value is
\* null, and never replaces a populated column by null.
C3_NullPreservation ==
    [][prog = "migrate" =>
         \A d \in DocIds :
            /\ (sink[d] # "norow" /\ src[d] = "null") => sink'[d] = sink[d]
            /\ sink[d] \notin {"norow", "null"} => sink'[d] # "null"]_vars

\* C4: a second run over the unchanged source, after a first run that
\* completed without errors, leaves the sink as the first run left it; and no
\* step of any run changes a row that already holds the source's value.
C4_Idempotence ==
    /\ [][(run = "second" /\ after_run # <<>> /\ after_run.errors = 0) =>
             /\ prog = "migrate" => sink' = after_run.sink
             /\ prog = "backfill" => store' = after_run.sink]_vars
    /\ [][\A d \in DocIds : Applied(d) => Applied(d)']_vars

C4_Witness ==
    /\ prog = "backfill" /\ run = "second" /\ pc = "done" /\ ~dry_run
    /\ after_run.errors = 0 /\ store = after_run.sink
    /\ N >= 2 /\ totals.skipped = N

\* C5: a batch whose upsert failed is reported as applied = 0 and
\* skipped (errors) = its size, and the worker goes on with the next item.
C5_BatchFailureIsolation ==
    /\ prog = "backfill" =>
         \A i \in DOMAIN fut :
            (fut[i].st = "done" /\ fut[i].failed) =>
                fut[i].result = <<0, 0, Len(batches[i])>>
    /\ (prog = "migrate" /\ cause = "sink") => pc # "failed"

\* C6: a run ends early only on a fatal source error.
C6_OnlySourceErrorsAbort ==
    pc \in {"failed", "aborted"} => cause = "source"

\* C7: the Producer pushes exactly workerCount Sentinels on normal
\* completion, every Sentinel after the last WorkItem (the final partial one
\* included), and no WorkItem after a Sentinel.
C7_ShutdownSignalling ==
    prog = "pipeline" =>
        /\ SentinelsPushed <= workerCount
        /\ pc = "exited" => SentinelsPushed = workerCount
        /\ \A i, j \in DOMAIN pushed : (i < j /\ pushed[i] = "S") => pushed[j] = "S"
        /\ SentinelsPushed > 0 =>
              /\ buf = <<>>
              /\ Flatten([i \in DOMAIN items |-> items[i].docs]) = [d \in 1..N |-> d]

C7_Witness ==
    /\ prog = "pipeline" /\ pc = "exited"
    /\ Len(items) >= 2
    /\ Len(items[Len(items)].docs) < W
    /\ SentinelsPushed = workerCount

AllStopped ==
    /\ \A w \in Workers : wst[w].st = "stopped"
    /\ chan = <<>>
    /\ \A i \in DOMAIN items : items[i].outcomes = 1

\* C8: every Worker consumes exactly one Sentinel and stops pulling after it;
\* once the Producer has exited normally, every Worker eventually stops, the
\* channel is empty and every WorkItem has been processed.
C8_GracefulShutdown ==
    /\ [](prog = "pipeline" =>
            \A w \in Workers :
                /\ wst[w].sentinels <= 1
                /\ wst[w].st = "stopped" <=> wst[w].sentinels = 1)
    /\ (prog = "pipeline" /\ pc = "exited") ~> AllStopped

C8_Witness ==
    /\ prog = "pipeline" /\ pc = "exited" /\ AllStopped
    /\ Len(items) >= 2

\* C9: collect_batches returns ceil(N / batch_size) batches, all but the last
\* of exactly batch_size documents, none empty, which concatenated are the
\* collection in key order.
C9_Regrouping ==
    (prog = "backfill" /\ pc = "collected") =>
        /\ Len(batches) = CeilDiv(N, W)
        /\ \A i \in DOMAIN batches :
              /\ Len(batches[i]) >= 1
              /\ i < Len(batches) => Len(batches[i]) = W
        /\ Ids(Flatten(batches)) = [d \in 1..N |-> d]

C9_Witness ==
    /\ prog = "backfill" /\ pc = "collected"
    /\ N = 5 /\ W = 2 /\ Len(batches) = 3

\* C10: starting with no cursor, the pages fetched so far are the first keys
\* of the collection, each once and in key order, and a completed extraction
\* has fetched them all; also when a page was retried.
C10_CursorPagination ==
    (prog \in {"backfill", "migrate"} /\ run = "first") =>
        /\ fetched = [i \in 1..Len(fetched) |-> i]
        /\ pc \in {"collected", "done"} => Len(fetched) = N

C10_Witness ==
    /\ prog = "backfill" /\ pc = "collected" /\ page_retried
    /\ Len(fetched) > FETCH_BATCH_SIZE /\ Len(fetched) = N

\* C11: a page is attempted at most max_retries + 1 times, the count of failed
\* attempts starting at 0 for every page; when a page's attempts are used up
\* the extraction has failed on a source error, and once it has failed no
\* further page is fetched.
C11_Step ==
    prog \in {"backfill", "verify"} =>
        /\ fetched' # fetched => (retry_count <= max_retries /\ retry_count' = 0)
        /\ pc = "failed" => (pc' = "failed" /\ fetched' = fetched)

C11_BoundedRetry ==
    /\ [](prog \in {"backfill", "verify"} =>
            /\ retry_count <= max_retries + 1
            /\ pc = "collect" => retry_count <= max_retries
            /\ retry_count = max_retries + 1 => (pc = "failed" /\ cause = "source"))
    /\ [][C11_Step]_vars

C11_Witness ==
    /\ prog = "backfill" /\ pc = "failed" /\ last_error = "retryable"
    /\ retry_count = max_retries + 1
    /\ page_retried /\ Len(fetched) = FETCH_BATCH_SIZE

\* C12: a fetch error that is not retryable is never retried: the extraction
\* has failed as soon as one occurred.
C12_NonRetryableNotRetried ==
    (prog \in {"backfill", "verify"} /\ last_error = "fatal") => pc = "failed"
\* the key of row i of the file, as the script derives it
RowLacksIdentifier(i) ==
    LET row == csv_rows[i]
    IN IF prog = "quiet"
       THEN /\ (col_idx_map.corp /\ row.cells > 0) => normalize_corporate_number(row.corp) = "none"
            /\ (col_idx_map.phone /\ row.cells > 0) => normalize_phone(row.phone) = "none"
       ELSE /\ row.cells > 0
            /\ col_idx_map.corp => normalize_corporate_number_to_companies(row.corp) = "none"
            /\ col_idx_map.phone => normalize_phone_to_companies(row.phone) = "none"

NeverSubmitted(i) == \A k \in DOMAIN submitted : submitted[k].row # i

C14_OneOutcomePerWorkItem ==
    prog = "backfill" =>
        /\ \A i \in DOMAIN fut :
              fut[i].outcomes = (IF fut[i].st = "collected" THEN 1 ELSE 0)
        /\ pc \in {"processing", "done"} =>
              totals.completed = Cardinality({i \in DOMAIN fut : fut[i].outcomes = 1})
        /\ pc = "done" =>
              /\ Len(fut) = Len(batches)
              /\ \A i \in DOMAIN fut : fut[i].outcomes = 1

C14_Witness ==
    /\ prog = "backfill" /\ pc = "done" /\ Len(batches) >= 2
    /\ \A i \in DOMAIN fut : fut[i].outcomes = 1
    /\ totals.retried >= 1
    /\ totals.errors > 0
\* C15: every batch is handed to the pool exactly once (none lost, none
\* twice), and each future is taken by exactly one pool thread: not yet while
\* it is queued, once from then on, also when the run is done.
C15_ExclusiveOwnership ==
    (prog = "backfill" /\ pc \in {"processing", "done"}) =>
        /\ \A b \in DOMAIN batches :
              Cardinality({k \in DOMAIN fut : fut[k].batch = b}) = 1
        /\ \A k \in DOMAIN fut :
              fut[k].starts = (IF fut[k].st = "pending" THEN 0 ELSE 1)
        /\ Cardinality(Running) <= concurrency
        /\ pc = "done" => \A k \in DOMAIN fut : fut[k].starts = 1

C15_Witness ==
    /\ prog = "backfill" /\ pc = "processing" /\ Len(batches) = 3
    /\ Cardinality(Running) = 2
    /\ fut[3].st = "running" /\ fut[1].st = "collected"
\* C16: whatever events were consumed, the produced total is the count of the
\* last produced event and each worker's stored tuple is its last progress
\* event; the global totals are the sum of the stored tuples, and consuming
\* the event just consumed once more leaves the totals as they are.
C16_Step ==
    agg_hist'.last = agg_hist.last => agg'.totals = agg.totals

C16_AggregatorState ==
    /\ [](prog = "aggregator" =>
            /\ agg.produced = agg_hist.last_produced
            /\ agg.workers = agg_hist.last_progress
            /\ agg.totals = SumWorkers(agg.workers, workerCount))
    /\ [][C16_Step]_vars

C16_Witness ==
    /\ prog = "aggregator"
    /\ agg.produced = 1 /\ agg.workers[1] = <<1, 0>> /\ agg.workers[2] = <<0, 1>>
    /\ agg.totals = [applied |-> 1, skipped |-> 1]
    /\ agg_hist.last = ProgressEvent(1, 1, 0) /\ agg_hist.consumed = 0

\* C17: the Aggregator's loop ends only when the events channel is empty, the
\* Producer is no longer running and the work channel is empty; once it has
\* ended the Producer is not running and no WorkItem is in the channel.
C17_Step ==
    (agg.st = "polling" /\ agg'.st = "exited") =>
        (events = <<>> /\ pc \in {"exited", "aborted"} /\ chan = <<>>)

C17_AggregatorExit ==
    /\ [](agg.st = "exited" => (pc \in {"exited", "aborted"} /\ chan = <<>>))
    /\ [][C17_Step]_vars

C17_Witness ==
    /\ prog = "pipeline" /\ agg.st = "exited" /\ pc = "aborted"
    /\ retry_count > 0 /\ Len(items) >= 2
    /\ agg.produced = EmittedCount
\* C18: when the extraction has aborted on a fatal error, every WorkItem
\* built before the abort has been processed by a worker and its outcome
\* collected.
C18_PushedItemsDrained ==
    (prog = "backfill" /\ pc = "failed") =>
        \A b \in DOMAIN batches :
            \E k \in DOMAIN fut : fut[k].batch = b /\ fut[k].st = "collected"
\* the documents of the WorkItem of future i
BatchIds(i) == {batches[fut[i].batch][j].id : j \in DOMAIN batches[fut[i].batch]}

\* C19: a step that changes the sink applies one whole batch and touches
\* nothing else: in the backfill every document of one running WorkItem holds
\* its value afterwards, in the migration every row of the page does; a step
\* that fails leaves the sink as it was.
C19_Step ==
    /\ (prog = "backfill" /\ store' # store) =>
          \E i \in Running :
             /\ \A d \in BatchIds(i) :
                   store'[d] = FieldOf(calculate_has_any_web_presence(d))
             /\ \A d \in DocIds \ BatchIds(i) : store'[d] = store[d]
    /\ (prog = "migrate" /\ sink' # sink) =>
          LET ids == {companies_batch[j].id : j \in DOMAIN companies_batch}
          IN /\ pc = "insert"
             /\ \A d \in ids : sink'[d] = src[d]
             /\ \A d \in DocIds \ ids : sink'[d] = sink[d]
    /\ (pc' = "failed" \/ (\E i \in DOMAIN fut : i \in DOMAIN fut' /\ ~fut[i].failed /\ fut'[i].failed))
          => (store' = store /\ sink' = sink)

C19_BatchAtomicity == [][C19_Step]_vars

\* a WorkItem of several documents is applied as a whole while another one
\* has failed with none of its documents written
C19_Witness ==
    /\ prog = "backfill" /\ pc = "processing" /\ ~dry_run
    /\ \E i, k \in DOMAIN fut :
         /\ i # k
         /\ fut[i].st = "done" /\ ~fut[i].failed /\ fut[i].result[1] >= 2
         /\ \A d \in BatchIds(i) : store[d] = FieldOf(calculate_has_any_web_presence(d))
         /\ fut[k].st = "done" /\ fut[k].failed
         /\ \A d \in BatchIds(k) : store[d] = "absent"
\* C20: in whatever order the pool has run the WorkItems, a WorkItem that
\* returned without failure has every document at its value, and a run that
\* ended without errors leaves one and the same sink: every document of the
\* collection at its value and nothing else written.
C20_OrderIndependence ==
    (prog = "backfill" /\ ~dry_run) =>
        /\ \A i \in DOMAIN fut :
              (fut[i].st = "done" /\ ~fut[i].failed) =>
                 \A d \in BatchIds(i) :
                    store[d] = FieldOf(calculate_has_any_web_presence(d))
        /\ (pc = "done" /\ totals.errors = 0) =>
              \A d \in DocIds :
                 store[d] = IF d <= N THEN FieldOf(calculate_has_any_web_presence(d))
                            ELSE "absent"

\* the second WorkItem is applied while the first one is still running
C20_Witness ==
    /\ prog = "backfill" /\ pc = "processing" /\ ~dry_run
    /\ Len(fut) >= 2
    /\ fut[1].st = "running"
    /\ \E d \in BatchIds(1) : store[d] # FieldOf(calculate_has_any_web_presence(d))
    /\ fut[2].st = "done" /\ ~fut[2].failed /\ fut[2].result[1] >= 1
    /\ \A d \in BatchIds(2) : store[d] = FieldOf(calculate_has_any_web_presence(d))
\* C23: the wait before a further retry of a page is twice the wait before
\* the previous retry of that page, and the waits a batch slept between its
\* attempts double from one to the next.
C23_Step ==
    (prog = "backfill" /\ wait_time # 0 /\ wait_time' # wait_time /\ wait_time' # 0) =>
        wait_time' = 2 * wait_time

C23_ExponentialBackoff ==
    /\ [](prog = "backfill" =>
            \A i \in DOMAIN fut : \A k \in 1..(Len(fut[i].waits) - 1) :
                fut[i].waits[k + 1] = 2 * fut[i].waits[k])
    /\ [][C23_Step]_vars
\* C24: the fetch loop ends exactly on the first page shorter than the page
\* size; when the number of records is a multiple of the page size the page
\* that ends it is one further, empty page; no empty batch is built; and
\* every extraction comes to an end.
C24_Step ==
    /\ (prog = "backfill" /\ pc = "collect" /\ retry_count' = 0 /\ pc' # "failed") =>
          /\ (pc' = "collected") <=> (Len(fetched') - Len(fetched) < P)
          /\ (pc' = "collected" /\ N % P = 0) =>
                (fetched' = fetched /\ Len(fetched) = N)
    /\ (prog = "migrate" /\ pc = "insert" /\ pc' # "failed") =>
          ((pc' = "done") <=> (Len(companies_batch) < P))
    /\ (prog = "migrate" /\ pc = "fetch" /\ pc' = "done") =>
          (fetched' = fetched /\ (N - last_doc) % P = 0)

C24_PaginationTerminates ==
    /\ [][C24_Step]_vars
    /\ [](prog = "backfill" => \A b \in DOMAIN batches : Len(batches[b]) >= 1)
    /\ []((prog = "migrate" /\ pc = "insert") => companies_batch # <<>>)
    /\ (prog \in {"backfill", "migrate"}) => <>(pc \in {"collected", "done", "failed"})

\* a collection of exactly one full page was read to its end by a second,
\* empty fetch
C24_Witness ==
    /\ prog = "backfill" /\ pc = "collected"
    /\ N = P /\ Len(fetched) = N /\ Len(batches) >= 2
\* C25: the document id in the resume file is the last id of a page whose
\* upsert is committed: every document up to it is in the table with the
\* source's value.
C25_ResumePointCommitted ==
    (prog = "migrate" /\ resume # 0) =>
        \A d \in 1..resume : sink[d] = src[d]
\* C30: when migrate_companies has failed, the exception that leaves it is
\* the original failure and the PostgreSQL connection is closed.
C30_OriginalErrorPropagates ==
    (prog = "migrate" /\ pc = "failed") => (exc = "original" /\ ~conn_open)
\* C26: a row whose update raised is followed by the next row of the file;
\* the file is left only after its last row, with the transaction committed;
\* and a file whose rows are being processed does reach that end.
C26_Step ==
    (prog = "quiet" /\ stats'.error_count > stats.error_count) =>
        (pc' = "rows" /\ row_num' = row_num + 1)

C27_ReportedEqualsCommitted ==
    (prog = "quiet" /\ pc = "done") => stats.updates_in_file = tx_updates
\* a number: digits and commas with a digit among them, then possibly a
\* point and digits
IsNumber(str) ==
    /\ str # <<>>
    /\ \A i \in DOMAIN str : str[i] \in DigitChars \cup {".", ","}
    /\ Cardinality({i \in DOMAIN str : str[i] = "."}) <= 1
    /\ \E i \in DOMAIN WholePart(str) : IsDigit(WholePart(str)[i])
    /\ \A i \in DOMAIN FracPart(str) : IsDigit(FracPart(str)[i])
    /\ Contains(str, ".") => FracPart(str) # <<>>

\* the integer to store for a number, possibly followed by a unit suffix,
\* under a header: the number times the unit of the suffix, without a suffix
\* the unit of the header, cut to an integer
ScaledNumber(header, str) ==
    LET suffixed == str # <<>> /\ str[Len(str)] \in {"M", "K"}
        body == IF suffixed THEN SubSeq(str, 1, Len(str) - 1) ELSE str
        scale == IF suffixed THEN (IF str[Len(str)] = "M" THEN 6 ELSE 3)
                 ELSE HeaderScale(header)
    IN IF IsNumber(body)
       THEN ScaledInt(SelectSeq(WholePart(body), IsNotComma), FracPart(body), scale)
       ELSE None

\* C22: "5" under a header in millions is stored as 5000000 and "5000000"
\* under a plain header as 5000000; a number, with the unit suffix the script
\* knows or without one, is stored as the number times its unit; an empty
\* text and a text without any digit give None.
C22_UnitScaling ==
    (prog = "numeric" /\ pc = "parsed") =>
        LET val == num_in.val
            known == IF num_in.script = "quiet" THEN {"M", "K"} ELSE {"M"}
        IN /\ (num_in.header = "millions" /\ val = <<"5">>) =>
                 num_out = <<"5", "0", "0", "0", "0", "0", "0">>
           /\ (num_in.header = "plain" /\ val = <<"5", "0", "0", "0", "0", "0", "0">>) =>
                 num_out = val
           /\ (ScaledNumber(num_in.header, val) # None
                 /\ \A i \in DOMAIN val : val[i] \in {"M", "K"} => val[i] \in known) =>
                 num_out = ScaledNumber(num_in.header, val)
           /\ (\A i \in DOMAIN val : ~IsDigit(val[i])) => num_out = None
\* C21: no two workers that run at the same time use the same sink connection.
C21_ConnectionPerWorker ==
    prog = "backfill" =>
        \A i, j \in Running : i # j => WorkerConnection(i) # WorkerConnection(j)
\* C28: a column that held a value when the row was fetched is not changed
\* by the scraper, and no column is set to NULL or blank.
C28_Step ==
    prog = "scrape" =>
        \A id \in DOMAIN companies : \A col \in ScrapedCols :
            companies[id][col] # "" => companies'[id][col] # ""

C28_ExistingDataProtected ==
    /\ [](prog = "scrape" =>
            \A k \in DOMAIN rows : \A col \in FetchedCols :
                rows[k].cols[col] # "" => companies[rows[k].id][col] = rows[k].cols[col])
    /\ [][C28_Step]_vars

\* C29: a securities code whose document download failed in a run is not
\* appended to the processed-codes file by that run, in the mode that takes
\* codes and in the mode that takes a DocID table.
C29_FailedDownloadNotRecorded ==
    prog = "edinet" => download_failed \cap recorded = {}

====
